---------------------------- MODULE Spec2Model ----------------------------
(***************************************************************************)
(* A model of libant-rs: the ANT+ USB dongle run loop (src/src/ant.rs),    *)
(* the per-channel configuration state machine (src/src/channel.rs) and    *)
(* the message constructors of src/src/message.rs.                         *)
(*                                                                         *)
(* Rust's Option<T> is modelled as a sequence of length at most one:       *)
(* None is << >> and Some(x) is << x >>.  A byte is a natural below 256.   *)
(* The transport (rusb) is the environment: a read returns data, times     *)
(* out or fails, and a write succeeds or fails.  The receiving end of the  *)
(* caller's event queue is taken to be alive (Sender::send succeeds).      *)
(***************************************************************************)
EXTENDS Naturals, Sequences, FiniteSets

VARIABLES
    state,          \* Ant.state
    channels,       \* Ant.channels: [Option<Channel>; 8]
    reset_attempts, \* Ant::run's local reset_attempts
    request,        \* the command queue behind Ant.request
    connected,      \* whether a Sender of the command queue is still alive
    pc,             \* position of the run loop
    mesg,           \* the Response the read buffer yielded last, the loop
                    \* variable of `for mesg in &mut read_buffer`
    result,         \* what Ant::run returned (or that the thread panicked)
    wrote,          \* messages the last loop step wrote to the transport
    emitted,        \* Responses the last loop step sent to the caller
    resets_sent,    \* history: reset commands written on read timeouts
    op,             \* history: the last step the run loop took
    io,             \* history: what became of the write that step attempted
    closing,        \* history: channels whose close command was written and
                    \* whose EventChannelClosed has not been routed yet
                    \* (kept in RaceSpec)
    chan,           \* a stand-alone Channel (ChannelSpec)
    chan_ret,       \* what Channel::route returned for it (ChannelSpec)
    frame,          \* the Message last given to Message::encode (CodecSpec)
    encoded,        \* what Message::encode returned for it
    parts,          \* history: what the bytes given to ReadBuffer::new are made of
    flip,           \* history: the bit of those bytes that was flipped
    inner,          \* ReadBuffer.inner
    index,          \* ReadBuffer.index
    yielded,        \* the Responses ReadBuffer::next has returned so far
    rb              \* the ReadBuffer: being filled, iterated, exhausted, panicked

antVars == <<state, channels, reset_attempts, request, connected, pc, mesg,
             result, wrote, emitted, resets_sent, op, io, closing>>
chanVars == <<chan, chan_ret>>
codecVars == <<frame, encoded, parts, flip, inner, index, yielded, rb>>
vars == <<state, channels, reset_attempts, request, connected, pc, mesg,
          result, wrote, emitted, resets_sent, op, io, closing, chan, chan_ret,
          frame, encoded, parts, flip, inner, index, yielded, rb>>

---------------------------------------------------------------------------
(* Bounds of the model *)

MaxQueue == 1

\* Channel numbers the caller and the dongle use.
UsedChannels == {0, 1}

---------------------------------------------------------------------------
(* Program constants: src/src/message.rs and src/src/ant.rs *)

MESG_EVENT_ID == 1
MESG_RESPONSE_EVENT_ID == 64
MESG_UNASSIGN_CHANNEL_ID == 65
MESG_ASSIGN_CHANNEL_ID == 66
MESG_CHANNEL_MESG_PERIOD_ID == 67
MESG_CHANNEL_SEARCH_TIMEOUT_ID == 68
MESG_CHANNEL_RADIO_FREQ_ID == 69
MESG_NETWORK_KEY_ID == 70
MESG_RESET == 74
MESG_OPEN_CHANNEL_ID == 75
MESG_CLOSE_CHANNEL_ID == 76
MESG_REQUEST == 77
MESG_BROADCAST_DATA_ID == 78
MESG_CHANNEL_ID_ID == 81
MESG_CAPABILITIES_ID == 84
MESG_STARTUP_MESG_ID == 111

MESG_TX_SYNC == 164
MESG_HEADER_SIZE == 3
MESG_SIZE_OFFSET == 1
MESG_ID_OFFSET == 2
MESG_DATA_OFFSET == 3

ANT_NETWORK == 1
ANT_NETWORK_KEY == <<185, 165, 33, 251, 189, 114, 195, 69>>
NumChannels == 8
MaxResetAttempts == 2

Lo(x) == x % 256
Hi(x) == (x \div 256) % 256

---------------------------------------------------------------------------
(* message.rs: outbound messages *)

Message(id, data) == [id |-> id, data |-> data]

reset == Message(MESG_RESET, [i \in 1..15 |-> 0])

set_network_key(network_number, key) ==
    Message(MESG_NETWORK_KEY_ID, <<network_number>> \o key)

get_capabilities == Message(MESG_REQUEST, <<0, MESG_CAPABILITIES_ID>>)

assign_channel(channel, channel_type, network) ==
    Message(MESG_ASSIGN_CHANNEL_ID, <<channel, channel_type, network>>)

\* Mutant: the device number sent high byte first
set_channel_id_BigEndian(channel, device_id, device_type, transmission_type) ==
    Message(MESG_CHANNEL_ID_ID,
            <<channel, Hi(device_id), Lo(device_id), device_type, transmission_type>>)

set_channel_id(channel, device_id, device_type, transmission_type) ==
    Message(MESG_CHANNEL_ID_ID,
            <<channel, Lo(device_id), Hi(device_id), device_type, transmission_type>>)

set_hp_search_timeout(channel, timeout) ==
    Message(MESG_CHANNEL_SEARCH_TIMEOUT_ID, <<channel, timeout>>)

set_channel_period(channel, period) ==
    Message(MESG_CHANNEL_MESG_PERIOD_ID, <<channel, Lo(period), Hi(period)>>)

set_channel_frequency(channel, frequency) ==
    Message(MESG_CHANNEL_RADIO_FREQ_ID, <<channel, frequency>>)

open_channel(channel) == Message(MESG_OPEN_CHANNEL_ID, <<channel>>)

close_channel(channel) == Message(MESG_CLOSE_CHANNEL_ID, <<channel>>)

unassign_channel(channel) == Message(MESG_UNASSIGN_CHANNEL_ID, <<channel>>)

---------------------------------------------------------------------------
(* message.rs: inbound responses *)

Startup(reason) == [type |-> "Startup", reason |-> reason]

\* ChannelResponseMessage([channel, message_id, code byte])
ChannelResponse(channel, message_id, code) ==
    [type |-> "ChannelResponse", channel |-> channel,
     message_id |-> message_id, code |-> code]

BroadcastData(channel, data) ==
    [type |-> "BroadcastData", channel |-> channel, data |-> data]

\* ChannelResponseMessage::code: the status byte as a ChannelResponseCode;
\* any other byte reaches unimplemented!().
ChannelResponseCode(byte) ==
    CASE byte = 0 -> "ResponseNoError"
      [] byte = 1 -> "EventRxSearchTimeout"
      [] byte = 2 -> "EventRxFail"
      [] byte = 3 -> "EventTx"
      [] byte = 5 -> "EventTransferTxCompleted"
      [] byte = 6 -> "EventTransferTxFailed"
      [] byte = 7 -> "EventChannelClosed"
      [] byte = 8 -> "EventRxFailGoToSearch"
      [] byte = 9 -> "ChannelCollision"
      [] byte = 21 -> "ChannelInWrongState"
      [] OTHER -> "unimplemented"

---------------------------------------------------------------------------
(* channel.rs *)

Config(device_id, device_type, channel_type, frequency, period, timeout, transmission_type) ==
    [device_id |-> device_id, device_type |-> device_type,
     channel_type |-> channel_type, frequency |-> frequency,
     period |-> period, timeout |-> timeout,
     transmission_type |-> transmission_type]

\* Mutant: the channel number is not stored
ChannelNew_NumberZero(number, device) ==
    [state |-> "Assign", number |-> 0, device |-> device]

ChannelNew(number, device) ==
    [state |-> "Assign", number |-> number, device |-> device]

ChannelAssign(c, network) ==
    assign_channel(c.number, c.device.channel_type, network)

ChannelSetChannelId(c) ==
    set_channel_id(c.number, c.device.device_id, c.device.device_type,
                   c.device.transmission_type)

ChannelSetHpSearchTimeout(c) == set_hp_search_timeout(c.number, c.device.timeout)

ChannelSetPeriod(c) == set_channel_period(c.number, c.device.period)

ChannelSetFrequency(c) == set_channel_frequency(c.number, c.device.frequency)

ChannelOpen(c) == open_channel(c.number)

\* Mutant: any acknowledgement advances the channel
RouteArm_AnyAck(c, id, expected, next, out) ==
    [chan |-> [c EXCEPT !.state = next], ret |-> <<out>>, abort |-> FALSE]

\* Mutant: an acknowledgement the state does not wait for is answered with
\* the state's next message all the same
RouteArm_RepeatsOnOtherAck(c, id, expected, next, out) ==
    IF id = expected
    THEN [chan |-> [c EXCEPT !.state = next], ret |-> <<out>>, abort |-> FALSE]
    ELSE [chan |-> c, ret |-> <<out>>, abort |-> FALSE]

\* One arm of Channel::route: on the expected id move to `next` and return
\* `out`, otherwise return None and leave the channel alone.
RouteArm(c, id, expected, next, out) ==
    IF id = expected
    THEN [chan |-> [c EXCEPT !.state = next], ret |-> <<out>>, abort |-> FALSE]
    ELSE [chan |-> c, ret |-> << >>, abort |-> FALSE]

\* Mutant: the acknowledgement of the open command starts the configuration
\* over
ChannelRoute_OpenRewinds(c, id) ==
    CASE c.state = "Assign" ->
           RouteArm(c, id, MESG_ASSIGN_CHANNEL_ID, "SetDeviceId", ChannelSetChannelId(c))
      [] c.state = "SetDeviceId" ->
           RouteArm(c, id, MESG_CHANNEL_ID_ID, "SetTimeout", ChannelSetHpSearchTimeout(c))
      [] c.state = "SetTimeout" ->
           RouteArm(c, id, MESG_CHANNEL_SEARCH_TIMEOUT_ID, "SetPeriod", ChannelSetPeriod(c))
      [] c.state = "SetPeriod" ->
           RouteArm(c, id, MESG_CHANNEL_MESG_PERIOD_ID, "SetFrequency", ChannelSetFrequency(c))
      [] c.state = "SetFrequency" ->
           RouteArm(c, id, MESG_CHANNEL_RADIO_FREQ_ID, "Open", ChannelOpen(c))
      [] c.state = "Open" ->
           RouteArm(c, id, MESG_OPEN_CHANNEL_ID, "Assign", ChannelAssign(c, ANT_NETWORK))
      [] OTHER ->
           [chan |-> c, ret |-> << >>, abort |-> TRUE]

\* Channel::route(&mut self, mesg) for an acknowledgement whose originating
\* id is `id`: the channel afterwards, the Option<Message> returned, and
\* whether the unimplemented!() arm was reached.
ChannelRoute(c, id) ==
    CASE c.state = "Assign" ->
           RouteArm(c, id, MESG_ASSIGN_CHANNEL_ID, "SetDeviceId", ChannelSetChannelId(c))
      [] c.state = "SetDeviceId" ->
           RouteArm(c, id, MESG_CHANNEL_ID_ID, "SetTimeout", ChannelSetHpSearchTimeout(c))
      [] c.state = "SetTimeout" ->
           RouteArm(c, id, MESG_CHANNEL_SEARCH_TIMEOUT_ID, "SetPeriod", ChannelSetPeriod(c))
      [] c.state = "SetPeriod" ->
           RouteArm(c, id, MESG_CHANNEL_MESG_PERIOD_ID, "SetFrequency", ChannelSetFrequency(c))
      [] c.state = "SetFrequency" ->
           RouteArm(c, id, MESG_CHANNEL_RADIO_FREQ_ID, "Open", ChannelOpen(c))
      [] c.state = "Open" ->
           [chan |-> c, ret |-> << >>, abort |-> FALSE]
      [] OTHER ->
           [chan |-> c, ret |-> << >>, abort |-> TRUE]

---------------------------------------------------------------------------
(* Inputs *)

\* PowerMeter::channel_config(), and a configuration with every field set
\* (a device id above 255, so that both of its bytes matter).
PowerMeterConfig == Config(0, 11, 0, 57, 8182, 30, 0)
OtherConfig == Config(4660, 120, 64, 66, 8070, 12, 5)
Configs == {PowerMeterConfig, OtherConfig}

\* Channel bytes on the wire and in commands: the used slots and one byte
\* past the slot array.
ChannelBytes == UsedChannels \cup {NumChannels}

AckIds ==
    { MESG_ASSIGN_CHANNEL_ID, MESG_CHANNEL_ID_ID, MESG_CHANNEL_SEARCH_TIMEOUT_ID,
      MESG_CHANNEL_MESG_PERIOD_ID, MESG_CHANNEL_RADIO_FREQ_ID,
      MESG_OPEN_CHANNEL_ID, MESG_NETWORK_KEY_ID }

\* Status bytes: ResponseNoError, the logged events, EventChannelClosed,
\* ChannelInWrongState, one other known code and one byte code() rejects.
CodeBytes == {0, 1, 2, 7, 8, 21, 3, 4}

\* What the read buffer can yield: a Startup; the acknowledgement of every
\* configuration command for every used channel; every status byte as an
\* event and as a command response on channel 0; EventChannelClosed for
\* every channel byte; an acknowledgement for a channel byte past the slot
\* array; broadcast data for every used channel.
Responses ==
    { Startup(0) }
    \cup { ChannelResponse(ch, id, 0) : ch \in UsedChannels, id \in AckIds }
    \cup { ChannelResponse(0, MESG_EVENT_ID, code) : code \in CodeBytes }
    \cup { ChannelResponse(ch, MESG_EVENT_ID, 7) : ch \in ChannelBytes }
    \cup { ChannelResponse(0, MESG_ASSIGN_CHANNEL_ID, code) : code \in CodeBytes }
    \cup { ChannelResponse(NumChannels, MESG_ASSIGN_CHANNEL_ID, 0) }
    \cup { BroadcastData(ch, [i \in 1..8 |-> i]) : ch \in UsedChannels }

OpenChannelCmd(number, device) ==
    [type |-> "OpenChannel", number |-> number, device |-> device]
CloseChannelCmd(number) == [type |-> "CloseChannel", number |-> number]
SendCmd(m) == [type |-> "Send", mesg |-> m]
QuitCmd == [type |-> "Quit"]

\* What the caller submits: channel 0 with either configuration, channel 1
\* with the first, a close for every channel byte, a raw message, Quit.
Requests ==
    { OpenChannelCmd(0, d) : d \in Configs }
    \cup { OpenChannelCmd(n, PowerMeterConfig) : n \in UsedChannels }
    \cup { CloseChannelCmd(n) : n \in ChannelBytes }
    \cup { SendCmd(get_capabilities), QuitCmd }

\* Response::BroadcastData / Response::Error, as sent to the caller
EmitBroadcastData(m) == [type |-> "BroadcastData", mesg |-> m]
EmitError(e) == [type |-> "Error", error |-> e]
ChannelExists(n) == [kind |-> "ChannelExists", number |-> n]
ErrReset == [kind |-> "Reset"]
ErrUsb == [kind |-> "UsbDeviceError"]
ErrAlreadyRunning == [kind |-> "AlreadyRunning"]


---------------------------------------------------------------------------
(* ant.rs: Ant::route *)

None == << >>
Some(x) == << x >>

\* What one step of the loop does to the Ant and to the outside: the state
\* and slots afterwards, the messages written, the Responses sent to the
\* caller, and whether the thread panicked (unwrap / unimplemented / index).
Eff(st, chs, w, e, p) ==
    [state |-> st, channels |-> chs, wrote |-> w, emitted |-> e, panic |-> p]

Quiet(st, chs) == Eff(st, chs, << >>, << >>, FALSE)
Panicked(st, chs) == Eff(st, chs, << >>, << >>, TRUE)

\* Mutant: NotReady already answers a Startup with the network key
RouteNotReady_HandlesStartup(st, chs, m, ok) ==
    IF m.type = "Startup" /\ ok
    THEN Eff("SetNetworkKey", chs,
             <<set_network_key(ANT_NETWORK, ANT_NETWORK_KEY)>>, << >>, FALSE)
    ELSE Quiet(st, chs)

\* State::NotReady => {}
RouteNotReady(st, chs, m, ok) == Quiet(st, chs)

\* Mutant: a failed write of the network key leaves the state SetNetworkKey
RouteReset_KeepsState(st, chs, m, ok) ==
    IF m.type = "Startup"
    THEN IF ok
         THEN Eff("SetNetworkKey", chs,
                  <<set_network_key(ANT_NETWORK, ANT_NETWORK_KEY)>>, << >>, FALSE)
         ELSE Quiet("SetNetworkKey", chs)
    ELSE Quiet(st, chs)

\* Mutant: a failed write of the network key aborts the thread
RouteReset_PanicsOnFailure(st, chs, m, ok) ==
    IF m.type = "Startup"
    THEN IF ok
         THEN Eff("SetNetworkKey", chs,
                  <<set_network_key(ANT_NETWORK, ANT_NETWORK_KEY)>>, << >>, FALSE)
         ELSE Panicked("SetNetworkKey", chs)
    ELSE Quiet(st, chs)

\* Mutant: a Startup in state Reset completes the bring-up at once
RouteReset_StraightToRunning(st, chs, m, ok) ==
    IF m.type = "Startup"
    THEN IF ok
         THEN Eff("Running", chs,
                  <<set_network_key(ANT_NETWORK, ANT_NETWORK_KEY)>>, << >>, FALSE)
         ELSE Quiet("Reset", chs)
    ELSE Quiet(st, chs)

\* State::Reset: on Startup set_network_key(); a failed write puts the state
\* back to Reset.  `ok` is the outcome of the transport write.
RouteReset(st, chs, m, ok) ==
    IF m.type = "Startup"
    THEN IF ok
         THEN Eff("SetNetworkKey", chs,
                  <<set_network_key(ANT_NETWORK, ANT_NETWORK_KEY)>>, << >>, FALSE)
         ELSE Quiet("Reset", chs)
    ELSE Quiet(st, chs)

\* Mutant: any ChannelResponse completes the bring-up
RouteSetNetworkKey_AnyResponse(st, chs, m, ok) ==
    CASE m.type = "Startup" -> Quiet("Reset", chs)
      [] m.type = "ChannelResponse" ->
           LET code == ChannelResponseCode(m.code) IN
           IF code = "unimplemented" THEN Panicked(st, chs)
           ELSE Quiet("Running", chs)
      [] OTHER -> Quiet(st, chs)

\* State::SetNetworkKey
RouteSetNetworkKey(st, chs, m, ok) ==
    CASE m.type = "Startup" -> Quiet("Reset", chs)
      [] m.type = "ChannelResponse" ->
           LET code == ChannelResponseCode(m.code) IN
           IF code = "unimplemented" THEN Panicked(st, chs)
           ELSE IF code = "ResponseNoError" THEN Quiet("Running", chs)
           ELSE Quiet(st, chs)
      [] OTHER -> Quiet(st, chs)

\* Mutant: a closed channel of an empty slot is not unassigned
RouteEvent_NoUnassign(st, chs, m, ok) ==
    LET code == ChannelResponseCode(m.code) IN
    IF code = "unimplemented" THEN Panicked(st, chs)
    ELSE IF code = "EventChannelClosed"
    THEN IF m.channel >= NumChannels THEN Panicked(st, chs)
         ELSE IF chs[m.channel] # None
         THEN IF ok
              THEN Eff(st, chs, <<ChannelOpen(chs[m.channel][1])>>, << >>, FALSE)
              ELSE Panicked(st, chs)
         ELSE Quiet(st, chs)
    ELSE Quiet(st, chs)

\* Mutant: a closed channel is configured again from the start
RouteEvent_Reconfigures(st, chs, m, ok) ==
    LET code == ChannelResponseCode(m.code) IN
    IF code = "unimplemented" THEN Panicked(st, chs)
    ELSE IF code = "EventChannelClosed"
    THEN IF m.channel >= NumChannels THEN Panicked(st, chs)
         ELSE IF chs[m.channel] # None
         THEN LET c == [chs[m.channel][1] EXCEPT !.state = "Assign"] IN
              IF ok THEN Eff(st, [chs EXCEPT ![m.channel] = Some(c)],
                             <<ChannelAssign(c, ANT_NETWORK)>>, << >>, FALSE)
              ELSE Panicked(st, chs)
         ELSE IF ok
              THEN Eff(st, chs, <<unassign_channel(m.channel)>>, << >>, FALSE)
              ELSE Panicked(st, chs)
    ELSE Quiet(st, chs)

\* State::Running, ChannelResponse with message_id() == 1: an event
RouteEvent(st, chs, m, ok) ==
    LET code == ChannelResponseCode(m.code) IN
    IF code = "unimplemented" THEN Panicked(st, chs)
    ELSE IF code = "EventChannelClosed"
    THEN IF m.channel >= NumChannels THEN Panicked(st, chs)
         ELSE LET send_mesg == IF chs[m.channel] # None
                               THEN ChannelOpen(chs[m.channel][1])
                               ELSE unassign_channel(m.channel) IN
              IF ok THEN Eff(st, chs, <<send_mesg>>, << >>, FALSE)
              ELSE Panicked(st, chs)
    ELSE Quiet(st, chs)

\* Mutant: every acknowledgement goes to the Channel in slot 0
RouteAck_SlotZero(st, chs, m, ok) ==
    LET code == ChannelResponseCode(m.code) IN
    IF code = "unimplemented" THEN Panicked(st, chs)
    ELSE IF code = "ResponseNoError"
    THEN IF chs[0] # None
         THEN LET r == ChannelRoute(chs[0][1], m.message_id) IN
              IF r.abort THEN Panicked(st, chs)
              ELSE Eff(st, [chs EXCEPT ![0] = Some(r.chan)],
                       IF ok THEN r.ret ELSE << >>, << >>, FALSE)
         ELSE Quiet(st, chs)
    ELSE Quiet(st, chs)

\* Mutant: ChannelInWrongState frees the slot
RouteAck_WrongStateFreesSlot(st, chs, m, ok) ==
    LET code == ChannelResponseCode(m.code) IN
    IF code = "unimplemented" THEN Panicked(st, chs)
    ELSE IF code = "ResponseNoError"
    THEN IF m.channel >= NumChannels THEN Panicked(st, chs)
         ELSE IF chs[m.channel] # None
         THEN LET r == ChannelRoute(chs[m.channel][1], m.message_id) IN
              IF r.abort THEN Panicked(st, chs)
              ELSE Eff(st, [chs EXCEPT ![m.channel] = Some(r.chan)],
                       IF ok THEN r.ret ELSE << >>, << >>, FALSE)
         ELSE Quiet(st, chs)
    ELSE IF code = "ChannelInWrongState" /\ m.channel < NumChannels
    THEN Quiet(st, [chs EXCEPT ![m.channel] = None])
    ELSE Quiet(st, chs)

\* State::Running, ChannelResponse that is not an event
RouteAck(st, chs, m, ok) ==
    LET code == ChannelResponseCode(m.code) IN
    IF code = "unimplemented" THEN Panicked(st, chs)
    ELSE IF code = "ResponseNoError"
    THEN IF m.channel >= NumChannels THEN Panicked(st, chs)
         ELSE IF chs[m.channel] # None
         THEN LET r == ChannelRoute(chs[m.channel][1], m.message_id) IN
              IF r.abort THEN Panicked(st, chs)
              ELSE Eff(st, [chs EXCEPT ![m.channel] = Some(r.chan)],
                       IF ok THEN r.ret ELSE << >>, << >>, FALSE)
         ELSE Quiet(st, chs)
    ELSE Quiet(st, chs)

\* Mutant: broadcast data of a channel the caller never opened is dropped
RouteRunning_BroadcastNeedsSlot(st, chs, m, ok) ==
    CASE m.type = "Startup" -> Quiet("Reset", chs)
      [] m.type = "ChannelResponse" ->
           IF m.message_id = MESG_EVENT_ID
           THEN RouteEvent(st, chs, m, ok)
           ELSE RouteAck(st, chs, m, ok)
      [] m.type = "BroadcastData" ->
           IF chs[m.channel] # None
           THEN Eff(st, chs, << >>, <<EmitBroadcastData(m)>>, FALSE)
           ELSE Quiet(st, chs)

\* Mutant: a Startup while Running is dropped
RouteRunning_IgnoresStartup(st, chs, m, ok) ==
    CASE m.type = "Startup" -> Quiet(st, chs)
      [] m.type = "ChannelResponse" ->
           IF m.message_id = MESG_EVENT_ID
           THEN RouteEvent(st, chs, m, ok)
           ELSE RouteAck(st, chs, m, ok)
      [] m.type = "BroadcastData" ->
           Eff(st, chs, << >>, <<EmitBroadcastData(m)>>, FALSE)

\* State::Running
RouteRunning(st, chs, m, ok) ==
    CASE m.type = "Startup" -> Quiet("Reset", chs)
      [] m.type = "ChannelResponse" ->
           IF m.message_id = MESG_EVENT_ID
           THEN RouteEvent(st, chs, m, ok)
           ELSE RouteAck(st, chs, m, ok)
      [] m.type = "BroadcastData" ->
           Eff(st, chs, << >>, <<EmitBroadcastData(m)>>, FALSE)

AntRoute(st, chs, m, ok) ==
    CASE st = "NotReady" -> RouteNotReady(st, chs, m, ok)
      [] st = "Reset" -> RouteReset(st, chs, m, ok)
      [] st = "SetNetworkKey" -> RouteSetNetworkKey(st, chs, m, ok)
      [] st = "Running" -> RouteRunning(st, chs, m, ok)

---------------------------------------------------------------------------
(* ant.rs: Ant::run, the requests *)

\* Mutant: the `continue` after reporting ChannelExists is missing
OnOpenChannel_Overwrites(st, chs, number, device, ok) ==
    IF number >= NumChannels THEN Panicked(st, chs)
    ELSE LET channel == ChannelNew(number, device)
             e == IF chs[number] # None
                  THEN <<EmitError(ChannelExists(number))>> ELSE << >> IN
         IF ok
         THEN Eff(st, [chs EXCEPT ![number] = Some(channel)],
                  <<ChannelAssign(channel, ANT_NETWORK)>>, e, FALSE)
         ELSE Panicked(st, chs)

\* Request::OpenChannel(number, device)
OnOpenChannel(st, chs, number, device, ok) ==
    IF number >= NumChannels THEN Panicked(st, chs)
    ELSE IF chs[number] # None
    THEN Eff(st, chs, << >>, <<EmitError(ChannelExists(number))>>, FALSE)
    ELSE LET channel == ChannelNew(number, device) IN
         IF ok
         THEN Eff(st, [chs EXCEPT ![number] = Some(channel)],
                  <<ChannelAssign(channel, ANT_NETWORK)>>, << >>, FALSE)
         ELSE Panicked(st, chs)

\* Mutant: the slot is kept until the dongle acknowledges the close
OnCloseChannel_KeepsSlot(st, chs, number, ok) ==
    IF number >= NumChannels THEN Panicked(st, chs)
    ELSE IF chs[number] # None
    THEN IF ok
         THEN Eff(st, chs, <<close_channel(number)>>, << >>, FALSE)
         ELSE Panicked(st, chs)
    ELSE Quiet(st, chs)

\* Request::CloseChannel(number)
OnCloseChannel(st, chs, number, ok) ==
    IF number >= NumChannels THEN Panicked(st, chs)
    ELSE IF chs[number] # None
    THEN IF ok
         THEN Eff(st, [chs EXCEPT ![number] = None],
                  <<close_channel(number)>>, << >>, FALSE)
         ELSE Panicked(st, chs)
    ELSE Quiet(st, chs)

\* Request::Send(mesg)
OnSend(st, chs, m, ok) ==
    IF ok THEN Eff(st, chs, <<m>>, << >>, FALSE) ELSE Panicked(st, chs)

OnRequest(st, chs, req, ok) ==
    CASE req.type = "OpenChannel" -> OnOpenChannel(st, chs, req.number, req.device, ok)
      [] req.type = "CloseChannel" -> OnCloseChannel(st, chs, req.number, ok)
      [] req.type = "Send" -> OnSend(st, chs, req.mesg, ok)

---------------------------------------------------------------------------
(* The run loop as a state machine *)

\* The channel whose close command a processed request wrote, if it wrote one
CloseWritten(req, w) ==
    IF req.type = "CloseChannel" /\ w # << >> THEN { req.number } ELSE { }

\* The channel a routed Response reports as closed, if it is such an event
ClosedBy(m) ==
    IF /\ m.type = "ChannelResponse" /\ m.message_id = MESG_EVENT_ID
       /\ ChannelResponseCode(m.code) = "EventChannelClosed"
    THEN { m.channel } ELSE { }

\* What became of the transport write of a step: `attempt` is what the step
\* does when the transport accepts every write, `ok` whether it accepted.
WriteOutcome(attempt, ok) ==
    IF attempt.wrote = << >> THEN "none"
    ELSE IF ok THEN "ok" ELSE "failed"

AntInit ==
    /\ state = "NotReady"
    /\ channels = [i \in 0..(NumChannels - 1) |-> None]
    /\ reset_attempts = 0
    /\ request = << >>
    /\ connected = TRUE
    /\ pc = "start"
    /\ mesg = None
    /\ result = "running"
    /\ wrote = << >>
    /\ emitted = << >>
    /\ resets_sent = 0
    /\ op = "init"
    /\ io = "none"
    /\ closing = { }

\* No Message encoded yet and a ReadBuffer over no bytes
CodecIdle ==
    /\ frame = None /\ encoded = << >>
    /\ parts = << >> /\ flip = None
    /\ inner = << >> /\ index = 0
    /\ yielded = << >> /\ rb = "fill"

Init ==
    /\ AntInit
    /\ chan = ChannelNew(0, PowerMeterConfig)
    /\ chan_ret = None
    /\ CodecIdle

\* Ant::run returned Err(e): run() reports it to the caller (ant.rs 91-93)
Fail(kind, e) ==
    /\ pc' = "done"
    /\ result' = kind
    /\ emitted' = <<EmitError(e)>>

\* The thread running the loop panicked
Panic ==
    /\ pc' = "done"
    /\ result' = "Panic"
    /\ emitted' = << >>

\* Entry of Ant::run
Start ==
    /\ pc = "start"
    /\ IF state = "Running"
       THEN Fail("ErrAlreadyRunning", ErrAlreadyRunning)
       ELSE pc' = "read" /\ UNCHANGED <<result, emitted>>
    /\ reset_attempts' = 0
    /\ op' = "Start"
    /\ io' = "none"
    /\ UNCHANGED <<state, channels, request, connected, mesg, wrote, resets_sent>>
    /\ UNCHANGED closing
    /\ UNCHANGED chanVars
    /\ UNCHANGED codecVars

\* self.usb_device.read(..) returned Ok(len)
ReadOk ==
    /\ pc = "read"
    /\ pc' = "iter"
    /\ wrote' = << >> /\ emitted' = << >>
    /\ op' = "ReadOk"
    /\ io' = "none"
    /\ UNCHANGED <<state, channels, reset_attempts, request, connected, mesg,
                   result, resets_sent>>
    /\ UNCHANGED closing
    /\ UNCHANGED chanVars
    /\ UNCHANGED codecVars

\* ... returned Err(UsbDeviceError(Timeout))
ReadTimeout ==
    /\ pc = "read"
    /\ pc' = "timeout"
    /\ wrote' = << >> /\ emitted' = << >>
    /\ op' = "ReadTimeout"
    /\ io' = "none"
    /\ UNCHANGED <<state, channels, reset_attempts, request, connected, mesg,
                   result, resets_sent>>
    /\ UNCHANGED closing
    /\ UNCHANGED chanVars
    /\ UNCHANGED codecVars

\* ... returned any other Err(e)
ReadError ==
    /\ pc = "read"
    /\ Fail("ErrUsb", ErrUsb)
    /\ wrote' = << >>
    /\ op' = "ReadError"
    /\ io' = "none"
    /\ UNCHANGED <<state, channels, reset_attempts, request, connected, mesg,
                   resets_sent>>
    /\ UNCHANGED closing
    /\ UNCHANGED chanVars
    /\ UNCHANGED codecVars

\* The Timeout arm while the state is NotReady
TimeoutNotReady ==
    /\ pc = "timeout" /\ state = "NotReady"
    /\ state' = "Reset"
    /\ pc' = "request"
    /\ wrote' = << >> /\ emitted' = << >>
    /\ op' = "TimeoutNotReady"
    /\ io' = "none"
    /\ UNCHANGED <<channels, reset_attempts, request, connected, mesg, result,
                   resets_sent>>
    /\ UNCHANGED closing
    /\ UNCHANGED chanVars
    /\ UNCHANGED codecVars

\* Mutant: the loop gives up on the first timeout in state Reset
MayRetryReset_Never(attempts) == FALSE

\* Whether the Timeout arm in state Reset still sends a reset command
MayRetryReset(attempts) == attempts < MaxResetAttempts

\* The Timeout arm while the state is Reset: self.reset()? or Err(Reset)
TimeoutReset ==
    /\ pc = "timeout" /\ state = "Reset"
    /\ IF MayRetryReset(reset_attempts)
       THEN \E ok \in BOOLEAN :
              IF ok
              THEN /\ wrote' = <<reset>> /\ io' = "ok"
                   /\ reset_attempts' = reset_attempts + 1
                   /\ resets_sent' = resets_sent + 1
                   /\ pc' = "request"
                   /\ emitted' = << >>
                   /\ UNCHANGED result
              ELSE /\ Fail("ErrUsb", ErrUsb)
                   /\ wrote' = << >> /\ io' = "failed"
                   /\ UNCHANGED <<reset_attempts, resets_sent>>
       ELSE /\ Fail("ErrReset", ErrReset)
            /\ wrote' = << >> /\ io' = "none"
            /\ UNCHANGED <<reset_attempts, resets_sent>>
    /\ op' = "TimeoutReset"
    /\ UNCHANGED <<state, channels, request, connected, mesg>>
    /\ UNCHANGED closing
    /\ UNCHANGED chanVars
    /\ UNCHANGED codecVars

\* The Timeout arm in the other states: _ => {}
TimeoutOther ==
    /\ pc = "timeout" /\ state \in {"SetNetworkKey", "Running"}
    /\ pc' = "request"
    /\ wrote' = << >> /\ emitted' = << >>
    /\ op' = "TimeoutOther"
    /\ io' = "none"
    /\ UNCHANGED <<state, channels, reset_attempts, request, connected, mesg,
                   result, resets_sent>>
    /\ UNCHANGED closing
    /\ UNCHANGED chanVars
    /\ UNCHANGED codecVars

\* for mesg in &mut read_buffer: the buffer yields its next Response
NextMesg ==
    /\ pc = "iter"
    /\ \E m \in Responses : mesg' = Some(m)
    /\ pc' = "route"
    /\ wrote' = << >> /\ emitted' = << >>
    /\ op' = "NextMesg"
    /\ io' = "none"
    /\ UNCHANGED <<state, channels, reset_attempts, request, connected, result,
                   resets_sent>>
    /\ UNCHANGED closing
    /\ UNCHANGED chanVars
    /\ UNCHANGED codecVars

\* ... the buffer is exhausted
EndOfBuffer ==
    /\ pc = "iter"
    /\ pc' = "request"
    /\ wrote' = << >> /\ emitted' = << >>
    /\ mesg' = None
    /\ op' = "EndOfBuffer"
    /\ io' = "none"
    /\ UNCHANGED <<state, channels, reset_attempts, request, connected,
                   result, resets_sent>>
    /\ UNCHANGED closing
    /\ UNCHANGED chanVars
    /\ UNCHANGED codecVars

\* ... the buffer holds a frame process_message cannot decode
DecodeAbort ==
    /\ pc = "iter"
    /\ Panic
    /\ wrote' = << >>
    /\ mesg' = None
    /\ op' = "DecodeAbort"
    /\ io' = "none"
    /\ UNCHANGED <<state, channels, reset_attempts, request, connected,
                   resets_sent>>
    /\ UNCHANGED closing
    /\ UNCHANGED chanVars
    /\ UNCHANGED codecVars

\* Mutant: re-entering Reset gives the timeouts their two resets back
RouteMesg_RestoresBudget ==
    /\ pc = "route"
    /\ \E ok \in BOOLEAN :
         LET r == AntRoute(state, channels, mesg[1], ok) IN
         /\ state' = r.state
         /\ channels' = r.channels
         /\ wrote' = r.wrote
         /\ io' = WriteOutcome(AntRoute(state, channels, mesg[1], TRUE), ok)
         /\ reset_attempts' =
              IF r.state = "Reset" /\ state # "Reset" THEN 0 ELSE reset_attempts
         /\ IF r.panic
            THEN Panic
            ELSE pc' = "iter" /\ emitted' = r.emitted /\ UNCHANGED result
    /\ op' = "Route"
    /\ UNCHANGED <<request, connected, mesg, resets_sent>>
    /\ UNCHANGED chanVars
    /\ UNCHANGED codecVars

\* self.route(&mesg), all but the history of the closes
RouteMesg ==
    /\ pc = "route"
    /\ \E ok \in BOOLEAN :
         LET r == AntRoute(state, channels, mesg[1], ok) IN
         /\ state' = r.state
         /\ channels' = r.channels
         /\ wrote' = r.wrote
         /\ io' = WriteOutcome(AntRoute(state, channels, mesg[1], TRUE), ok)
         /\ IF r.panic
            THEN Panic
            ELSE pc' = "iter" /\ emitted' = r.emitted /\ UNCHANGED result
    /\ op' = "Route"
    /\ UNCHANGED <<reset_attempts, request, connected, mesg, resets_sent>>
    /\ UNCHANGED chanVars
    /\ UNCHANGED codecVars

\* self.route(&mesg)
Route == RouteMesg /\ UNCHANGED closing

\* Mutant: requests are taken as soon as the dongle has answered the reset
AcceptsRequests_Early(st) == st \in {"SetNetworkKey", "Running"}

\* if let State::Running = self.state
AcceptsRequests(st) == st = "Running"

\* The state is not Running: the requests are not looked at
SkipRequests ==
    /\ pc = "request" /\ ~AcceptsRequests(state)
    /\ pc' = "read"
    /\ wrote' = << >> /\ emitted' = << >>
    /\ op' = "SkipRequests"
    /\ io' = "none"
    /\ UNCHANGED <<state, channels, reset_attempts, request, connected, mesg,
                   result, resets_sent>>
    /\ UNCHANGED closing
    /\ UNCHANGED chanVars
    /\ UNCHANGED codecVars

\* try_recv() returned Err(Empty): continue
RecvEmpty ==
    /\ pc = "request" /\ AcceptsRequests(state)
    /\ request = << >> /\ connected
    /\ pc' = "read"
    /\ wrote' = << >> /\ emitted' = << >>
    /\ op' = "RecvEmpty"
    /\ io' = "none"
    /\ UNCHANGED <<state, channels, reset_attempts, request, connected, mesg,
                   result, resets_sent>>
    /\ UNCHANGED closing
    /\ UNCHANGED chanVars
    /\ UNCHANGED codecVars

\* try_recv() returned Err(Disconnected): break, Ok(())
RecvDisconnected ==
    /\ pc = "request" /\ AcceptsRequests(state)
    /\ request = << >> /\ ~connected
    /\ pc' = "done" /\ result' = "Ok"
    /\ wrote' = << >> /\ emitted' = << >>
    /\ op' = "RecvDisconnected"
    /\ io' = "none"
    /\ UNCHANGED <<state, channels, reset_attempts, request, connected, mesg,
                   resets_sent>>
    /\ UNCHANGED closing
    /\ UNCHANGED chanVars
    /\ UNCHANGED codecVars

\* Mutant: one poll takes every pending command off the queue
RecvRequest_DrainsQueue ==
    /\ pc = "request" /\ AcceptsRequests(state)
    /\ request # << >> /\ Head(request).type # "Quit"
    /\ request' = << >>
    /\ \E ok \in BOOLEAN :
         LET r == OnRequest(state, channels, Head(request), ok) IN
         /\ state' = r.state
         /\ channels' = r.channels
         /\ wrote' = r.wrote
         /\ io' = WriteOutcome(OnRequest(state, channels, Head(request), TRUE), ok)
         /\ IF r.panic
            THEN Panic
            ELSE pc' = "read" /\ emitted' = r.emitted /\ UNCHANGED result
    /\ op' = "RecvRequest"
    /\ UNCHANGED <<reset_attempts, connected, mesg, resets_sent>>
    /\ UNCHANGED closing
    /\ UNCHANGED chanVars
    /\ UNCHANGED codecVars

\* try_recv() returned Ok(request), an OpenChannel, CloseChannel or Send:
\* all but the history of the closes
TakeRequest ==
    /\ pc = "request" /\ AcceptsRequests(state)
    /\ request # << >> /\ Head(request).type # "Quit"
    /\ request' = Tail(request)
    /\ \E ok \in BOOLEAN :
         LET r == OnRequest(state, channels, Head(request), ok) IN
         /\ state' = r.state
         /\ channels' = r.channels
         /\ wrote' = r.wrote
         /\ io' = WriteOutcome(OnRequest(state, channels, Head(request), TRUE), ok)
         /\ IF r.panic
            THEN Panic
            ELSE pc' = "read" /\ emitted' = r.emitted /\ UNCHANGED result
    /\ op' = "RecvRequest"
    /\ UNCHANGED <<reset_attempts, connected, mesg, resets_sent>>
    /\ UNCHANGED chanVars
    /\ UNCHANGED codecVars

\* try_recv() returned Ok(request), an OpenChannel, CloseChannel or Send
RecvRequest == TakeRequest /\ UNCHANGED closing

\* Mutant: Quit resets the dongle but the loop keeps running
RecvQuit_KeepsRunning ==
    /\ pc = "request" /\ AcceptsRequests(state)
    /\ request # << >> /\ Head(request).type = "Quit"
    /\ request' = Tail(request)
    /\ \E ok \in BOOLEAN :
         IF ok
         THEN /\ wrote' = <<reset>> /\ io' = "ok"
              /\ pc' = "read" /\ emitted' = << >> /\ UNCHANGED result
         ELSE /\ wrote' = << >> /\ io' = "failed"
              /\ Fail("ErrUsb", ErrUsb)
    /\ op' = "RecvQuit"
    /\ UNCHANGED <<state, channels, reset_attempts, connected, mesg, resets_sent>>
    /\ UNCHANGED closing
    /\ UNCHANGED chanVars
    /\ UNCHANGED codecVars

\* try_recv() returned Ok(Request::Quit): self.reset()?; return Ok(())
RecvQuit ==
    /\ pc = "request" /\ AcceptsRequests(state)
    /\ request # << >> /\ Head(request).type = "Quit"
    /\ request' = Tail(request)
    /\ \E ok \in BOOLEAN :
         IF ok
         THEN /\ wrote' = <<reset>> /\ io' = "ok"
              /\ pc' = "done" /\ result' = "Ok" /\ emitted' = << >>
         ELSE /\ wrote' = << >> /\ io' = "failed"
              /\ Fail("ErrUsb", ErrUsb)
    /\ op' = "RecvQuit"
    /\ UNCHANGED <<state, channels, reset_attempts, connected, mesg, resets_sent>>
    /\ UNCHANGED closing
    /\ UNCHANGED chanVars
    /\ UNCHANGED codecVars

\* The caller sends a Request on the command queue
SubmitUpTo(max, reqs) ==
    /\ pc # "done" /\ connected
    /\ Len(request) < max
    /\ \E req \in reqs : request' = Append(request, req)
    /\ UNCHANGED <<state, channels, reset_attempts, connected, pc, mesg, result,
                   wrote, emitted, resets_sent, op, io>>
    /\ UNCHANGED closing
    /\ UNCHANGED chanVars
    /\ UNCHANGED codecVars

Submit == SubmitUpTo(MaxQueue, Requests)

\* The caller drops its Sender
Disconnect ==
    /\ pc # "done" /\ connected
    /\ connected' = FALSE
    /\ UNCHANGED <<state, channels, reset_attempts, request, pc, mesg, result,
                   wrote, emitted, resets_sent, op, io>>
    /\ UNCHANGED closing
    /\ UNCHANGED chanVars
    /\ UNCHANGED codecVars

Next ==
    \/ Start
    \/ ReadOk \/ ReadTimeout \/ ReadError
    \/ TimeoutNotReady \/ TimeoutReset \/ TimeoutOther
    \/ NextMesg \/ EndOfBuffer \/ DecodeAbort
    \/ Route
    \/ SkipRequests \/ RecvEmpty \/ RecvDisconnected \/ RecvRequest \/ RecvQuit
    \/ Submit \/ Disconnect

Spec == Init /\ [][Next]_vars

\* The steps of the thread that runs the loop (all but the caller's)
Loop ==
    \/ Start
    \/ ReadOk \/ ReadTimeout \/ ReadError
    \/ TimeoutNotReady \/ TimeoutReset \/ TimeoutOther
    \/ NextMesg \/ EndOfBuffer \/ DecodeAbort
    \/ Route
    \/ SkipRequests \/ RecvEmpty \/ RecvDisconnected \/ RecvRequest \/ RecvQuit

\* The thread of the loop keeps running until Ant::run returns or panics;
\* what the transport and the caller do is not constrained.
FairSpec == Init /\ [][Next]_vars /\ WF_vars(Loop)

---------------------------------------------------------------------------
(* The run loop with a dongle that answers *)

\* What a responsive dongle owes the loop: a Startup for the reset command
\* written in state Reset, and a ChannelResponse with ResponseNoError for
\* the network-key command that made the state SetNetworkKey.
StartupOwed == state = "Reset" /\ resets_sent > 0
KeyAnswerOwed == state = "SetNetworkKey"
Answers ==
    IF StartupOwed THEN { Startup(0) }
    ELSE IF KeyAnswerOwed
    THEN { ChannelResponse(ANT_NETWORK, MESG_NETWORK_KEY_ID, 0) }
    ELSE { }

\* usb_device.read times out.  The loop sleeps 500 ms after writing a reset
\* (Ant::reset), so the Startup the dongle owes is there before a read can
\* time out.
TimedOut == ReadTimeout /\ ~StartupOwed

\* usb_device.read returns data while the dongle owes an answer
ReadOwed == ReadOk /\ Answers # { }

\* The buffer yields an answer the dongle owes
Answered == NextMesg /\ mesg'[1] \in Answers

\* The buffer yields broadcast data of a channel left open
Broadcast == NextMesg /\ mesg'[1].type = "BroadcastData"

\* The steps of the loop with a dongle that sends the answers it owes and
\* broadcast data and nothing else, and a transport that reads and writes
\* without error.
BringUpLoop ==
    \/ Start
    \/ ReadOk \/ TimedOut
    \/ TimeoutNotReady \/ (TimeoutReset /\ io' # "failed") \/ TimeoutOther
    \/ Answered \/ Broadcast \/ EndOfBuffer
    \/ (Route /\ io' # "failed")
    \/ SkipRequests \/ RecvEmpty \/ RecvDisconnected
    \/ (RecvRequest /\ io' # "failed") \/ (RecvQuit /\ io' # "failed")

BringUpNext == BringUpLoop \/ Submit \/ Disconnect

\* The thread of the loop keeps running, reads time out again and again
\* where they can, a buffer holds finitely many frames, and an answer the
\* dongle owes is eventually read and yielded.
BringUpSpec ==
    /\ Init /\ [][BringUpNext]_vars
    /\ WF_vars(BringUpLoop)
    /\ SF_vars(TimedOut) /\ SF_vars(EndOfBuffer)
    /\ SF_vars(ReadOwed) /\ SF_vars(Answered)

---------------------------------------------------------------------------
(* The run loop with a longer command queue *)

\* The queue holds up to MaxPending commands; the dongle only sends what
\* takes the loop through the bring-up, so that the state space stays small.
MaxPending == 2
QueueRequests ==
    { OpenChannelCmd(0, PowerMeterConfig), CloseChannelCmd(0),
      SendCmd(get_capabilities), QuitCmd }
QueueResponses ==
    { Startup(0), ChannelResponse(ANT_NETWORK, MESG_NETWORK_KEY_ID, 0) }

SubmitPending == SubmitUpTo(MaxPending, QueueRequests)

QueueNext ==
    \/ Start
    \/ ReadOk \/ ReadTimeout \/ ReadError
    \/ TimeoutNotReady \/ TimeoutReset \/ TimeoutOther
    \/ (NextMesg /\ mesg'[1] \in QueueResponses) \/ EndOfBuffer \/ DecodeAbort
    \/ Route
    \/ SkipRequests \/ RecvEmpty \/ RecvDisconnected \/ RecvRequest \/ RecvQuit
    \/ SubmitPending \/ Disconnect

QueueSpec == Init /\ [][QueueNext]_vars

---------------------------------------------------------------------------
(* The run loop with a dongle that reports the closes *)

\* self.route(&mesg): an EventChannelClosed routed ends the close of its channel
RouteClosing == RouteMesg /\ closing' = closing \ ClosedBy(mesg[1])

\* A CloseChannel that writes its close command starts the close of its channel
RecvClosing ==
    TakeRequest /\ closing' = closing \cup CloseWritten(Head(request), wrote')

\* The caller opens and closes channel 0; the dongle sends what takes the
\* loop through the bring-up, and an EventChannelClosed for a channel only
\* while the close of that channel is under way.
RaceRequests ==
    { OpenChannelCmd(0, PowerMeterConfig), CloseChannelCmd(0), QuitCmd }
RaceResponses ==
    { Startup(0), ChannelResponse(ANT_NETWORK, MESG_NETWORK_KEY_ID, 0),
      ChannelResponse(0, MESG_EVENT_ID, 7) }

SubmitRace == SubmitUpTo(MaxPending, RaceRequests)

\* The buffer yields what such a dongle sends
DongleSends ==
    /\ NextMesg
    /\ mesg'[1] \in RaceResponses
    /\ ClosedBy(mesg'[1]) \subseteq closing

RaceNext ==
    \/ Start
    \/ ReadOk \/ ReadTimeout \/ ReadError
    \/ TimeoutNotReady \/ TimeoutReset \/ TimeoutOther
    \/ DongleSends \/ EndOfBuffer \/ DecodeAbort
    \/ RouteClosing
    \/ SkipRequests \/ RecvEmpty \/ RecvDisconnected \/ RecvClosing \/ RecvQuit
    \/ SubmitRace \/ Disconnect

RaceSpec == Init /\ [][RaceNext]_vars

---------------------------------------------------------------------------
(* Channel::new and Channel::route on their own *)

\* Originating ids fed to a Channel: the acknowledgements it waits for and
\* ids it never waits for.
FedIds ==
    AckIds \cup {0, MESG_EVENT_ID, MESG_UNASSIGN_CHANNEL_ID, MESG_CLOSE_CHANNEL_ID, 255}

ChannelInit ==
    /\ AntInit
    /\ \E number \in 0..(NumChannels - 1), device \in Configs :
         chan = ChannelNew(number, device)
    /\ chan_ret = None
    /\ CodecIdle

\* chan.route(&mesg) for a ChannelResponse with code ResponseNoError
ChannelFeed ==
    /\ \E id \in FedIds :
         LET r == ChannelRoute(chan, id) IN
         /\ ~r.abort
         /\ mesg' = Some(ChannelResponse(chan.number, id, 0))
         /\ chan' = r.chan
         /\ chan_ret' = r.ret
    /\ UNCHANGED <<state, channels, reset_attempts, request, connected, pc,
                   result, wrote, emitted, resets_sent, op, io, closing>>
    /\ UNCHANGED codecVars

ChannelNext == ChannelFeed

ChannelSpec == ChannelInit /\ [][ChannelNext]_vars

---------------------------------------------------------------------------
(* message.rs: Message::encode, ReadBuffer and process_message *)

\* a ^ b on u8
RECURSIVE XorBits(_, _, _)
XorBits(a, b, k) ==
    IF k = 0 THEN 0
    ELSE ((a + b) % 2) + 2 * XorBits(a \div 2, b \div 2, k - 1)

Xor(a, b) == XorBits(a, b, 8)

\* Mutant: the checksum leaves the sync byte out
RECURSIVE Checksum_SkipsSync(_, _)
Checksum_SkipsSync(buf, n) ==
    IF n <= 1 THEN 0 ELSE Xor(Checksum_SkipsSync(buf, n - 1), buf[n])

\* let mut checksum = 0; for i in 0..total_size { checksum ^= buf[i]; }
RECURSIVE Checksum(_, _)
Checksum(buf, n) ==
    IF n = 0 THEN 0 ELSE Xor(Checksum(buf, n - 1), buf[n])

\* Mutant: the buffer ends with the checksum
encode_NoPadding(m) ==
    LET size == Len(m.data)
        total_size == MESG_HEADER_SIZE + size
        buf == <<MESG_TX_SYNC, size % 256, m.id>> \o m.data
    IN  buf \o <<Checksum(buf, total_size)>>

\* Message::encode: a buffer of total_size + 3 zero bytes, then the sync
\* byte, the size (as u8), the id, the data and, at total_size, the checksum
\* of the bytes before it.  (Sequences count from 1, the code from 0.)
encode(m) ==
    LET size == Len(m.data)
        total_size == MESG_HEADER_SIZE + size
        buf == [i \in 1..(total_size + 3) |->
                  IF i = 1 THEN MESG_TX_SYNC
                  ELSE IF i = MESG_SIZE_OFFSET + 1 THEN size % 256
                  ELSE IF i = MESG_ID_OFFSET + 1 THEN m.id
                  ELSE IF i <= total_size THEN m.data[i - MESG_DATA_OFFSET]
                  ELSE 0]
    IN  [buf EXCEPT ![total_size + 1] = Checksum(buf, total_size)]

\* What a call that decodes returns: a Response, or nothing because the
\* thread panicked (unimplemented!(), expect(), an index out of bounds)
Decoded(r) == [panic |-> FALSE, item |-> Some(r)]
DecodePanic == [panic |-> TRUE, item |-> None]

\* Mutant: a message id that is not known is decoded as a Response of its own
process_message_Lenient(buf) ==
    LET id == buf[MESG_ID_OFFSET + 1]
        data == SubSeq(buf, MESG_DATA_OFFSET + 1, Len(buf))
    IN  CASE id = MESG_STARTUP_MESG_ID ->
               IF Len(data) >= 1 THEN Decoded(Startup(data[1])) ELSE DecodePanic
          [] id = MESG_RESPONSE_EVENT_ID ->
               IF Len(data) = 3
               THEN Decoded(ChannelResponse(data[1], data[2], data[3]))
               ELSE DecodePanic
          [] id = MESG_BROADCAST_DATA_ID ->
               IF Len(data) = 9
               THEN Decoded(BroadcastData(data[1], SubSeq(data, 2, 9)))
               ELSE DecodePanic
          [] OTHER -> Decoded([type |-> "Unknown", id |-> id])

\* process_message(buf): buf is the frame without its checksum.
\* StartupMessage(buf[3]) needs a fourth byte; ChannelResponseMessage::from
\* and BroadcastDataMessage::from expect exactly 3 and 9 bytes of data.
process_message(buf) ==
    LET id == buf[MESG_ID_OFFSET + 1]
        data == SubSeq(buf, MESG_DATA_OFFSET + 1, Len(buf))
    IN  CASE id = MESG_STARTUP_MESG_ID ->
               IF Len(data) >= 1 THEN Decoded(Startup(data[1])) ELSE DecodePanic
          [] id = MESG_RESPONSE_EVENT_ID ->
               IF Len(data) = 3
               THEN Decoded(ChannelResponse(data[1], data[2], data[3]))
               ELSE DecodePanic
          [] id = MESG_BROADCAST_DATA_ID ->
               IF Len(data) = 9
               THEN Decoded(BroadcastData(data[1], SubSeq(data, 2, 9)))
               ELSE DecodePanic
          [] OTHER -> DecodePanic

\* for i in index..len { checksum ^= self.inner[i]; }
RECURSIVE FrameChecksum(_, _, _)
FrameChecksum(bytes, from, to) ==
    IF from >= to THEN 0
    ELSE Xor(FrameChecksum(bytes, from, to - 1), bytes[to])

\* What ReadBuffer::next returns, and the index it leaves
Yield(i, r) == [index |-> i, item |-> r.item, panic |-> r.panic]

\* Mutant: the checksum byte is handed to process_message with the frame
RECURSIVE ReadBufferNext_KeepsChecksum(_, _)
ReadBufferNext_KeepsChecksum(bytes, i) ==
    IF i >= Len(bytes) THEN Yield(i, [panic |-> FALSE, item |-> None])
    ELSE IF bytes[i + 1] = MESG_TX_SYNC
    THEN IF i + 1 >= Len(bytes) THEN Yield(i, DecodePanic)
         ELSE LET len == i + bytes[i + 2] + 4 IN
              IF len > Len(bytes) THEN Yield(i, DecodePanic)
              ELSE IF FrameChecksum(bytes, i, len) = 0
              THEN Yield(len, process_message(SubSeq(bytes, i + 1, len)))
              ELSE ReadBufferNext_KeepsChecksum(bytes, i + 1)
    ELSE ReadBufferNext_KeepsChecksum(bytes, i + 1)

\* Mutant: a frame is yielded and the index stays where the call found it
RECURSIVE ReadBufferNext_KeepsIndex(_, _)
ReadBufferNext_KeepsIndex(bytes, i) ==
    IF i >= Len(bytes) THEN Yield(i, [panic |-> FALSE, item |-> None])
    ELSE IF bytes[i + 1] = MESG_TX_SYNC
    THEN IF i + 1 >= Len(bytes) THEN Yield(i, DecodePanic)
         ELSE LET len == i + bytes[i + 2] + 4 IN
              IF len > Len(bytes) THEN Yield(i, DecodePanic)
              ELSE IF FrameChecksum(bytes, i, len) = 0
              THEN Yield(i, process_message(SubSeq(bytes, i + 1, len - 1)))
              ELSE ReadBufferNext_KeepsIndex(bytes, i + 1)
    ELSE ReadBufferNext_KeepsIndex(bytes, i + 1)

\* ReadBuffer::next, from index i (counted from 0 as in the code): scan for
\* the sync byte; len = index + inner[index + 1] + 4; a zero XOR of
\* inner[index..len] yields process_message(&inner[index..len - 1]) and
\* leaves the index at len; otherwise go on one byte further.  Reading
\* inner[index + 1] or inner[i] past the end of inner panics.
RECURSIVE ReadBufferNext(_, _)
ReadBufferNext(bytes, i) ==
    IF i >= Len(bytes) THEN Yield(i, [panic |-> FALSE, item |-> None])
    ELSE IF bytes[i + 1] = MESG_TX_SYNC
    THEN IF i + 1 >= Len(bytes) THEN Yield(i, DecodePanic)
         ELSE LET len == i + bytes[i + 2] + 4 IN
              IF len > Len(bytes) THEN Yield(i, DecodePanic)
              ELSE IF FrameChecksum(bytes, i, len) = 0
              THEN Yield(len, process_message(SubSeq(bytes, i + 1, len - 1)))
              ELSE ReadBufferNext(bytes, i + 1)
    ELSE ReadBufferNext(bytes, i + 1)

---------------------------------------------------------------------------
(* The codec on its own: bytes are put together, then decoded *)

\* How many frames and runs of other bytes a buffer is made of
MaxParts == 3

\* Messages given to Message::encode: the three kinds process_message
\* knows, with the data their types hold; commands the dongle is sent, whose
\* ids process_message does not know; known ids with data of another length.
CodecMessages ==
    { Message(MESG_STARTUP_MESG_ID, <<0>>),
      Message(MESG_STARTUP_MESG_ID, <<32>>),
      Message(MESG_RESPONSE_EVENT_ID, <<0, MESG_ASSIGN_CHANNEL_ID, 0>>),
      Message(MESG_RESPONSE_EVENT_ID, <<1, MESG_EVENT_ID, 7>>),
      Message(MESG_BROADCAST_DATA_ID, <<0, 1, 2, 3, 4, 5, 6, 7, 8>>),
      reset, open_channel(0), get_capabilities,
      Message(MESG_STARTUP_MESG_ID, << >>),
      Message(MESG_STARTUP_MESG_ID, <<0, 1>>),
      Message(MESG_RESPONSE_EVENT_ID, <<0, 1>>) }

\* Bytes that are no frame: the two runs of the unit tests, a lone zero, a
\* lone sync byte, and a sync byte with a length of 9.
NoiseRuns ==
    { <<0, 1, 2, 3>>, <<MESG_TX_SYNC, 1, 2, 0>>, <<0>>, <<MESG_TX_SYNC>>,
      <<MESG_TX_SYNC, 9, 2, 0>> }

\* Frames as the dongle puts them on the wire, from the sync byte to the
\* checksum, without the two bytes Message::encode leaves after the checksum
WireMessages ==
    { Message(MESG_STARTUP_MESG_ID, <<0>>),
      Message(MESG_RESPONSE_EVENT_ID, <<1, MESG_EVENT_ID, 7>>) }

FramePart(m) == [kind |-> "frame", mesg |-> m, bytes |-> encode(m)]
WirePart(m) ==
    [kind |-> "wire", mesg |-> m,
     bytes |-> SubSeq(encode(m), 1, MESG_HEADER_SIZE + Len(m.data) + 1)]
NoisePart(b) == [kind |-> "noise", mesg |-> Message(0, << >>), bytes |-> b]

CodecInit ==
    /\ AntInit
    /\ chan = ChannelNew(0, PowerMeterConfig)
    /\ chan_ret = None
    /\ CodecIdle

\* message.encode(), appended to the bytes to decode
AppendFrame ==
    /\ rb = "fill" /\ flip = None /\ Len(parts) < MaxParts
    /\ \E m \in CodecMessages :
         /\ frame' = Some(m)
         /\ encoded' = encode(m)
         /\ parts' = Append(parts, FramePart(m))
         /\ inner' = inner \o encode(m)
    /\ UNCHANGED <<flip, index, yielded, rb>>
    /\ UNCHANGED <<antVars, chanVars>>

\* buffer.extend_from_slice(..) with bytes that are no frame
AppendNoise ==
    /\ rb = "fill" /\ flip = None /\ Len(parts) < MaxParts
    /\ \E b \in NoiseRuns :
         /\ parts' = Append(parts, NoisePart(b))
         /\ inner' = inner \o b
    /\ UNCHANGED <<frame, encoded, flip, index, yielded, rb>>
    /\ UNCHANGED <<antVars, chanVars>>

\* buffer.extend_from_slice(..) with a frame as it is on the wire
AppendWire ==
    /\ rb = "fill" /\ flip = None /\ Len(parts) < MaxParts
    /\ \E m \in WireMessages :
         /\ parts' = Append(parts, WirePart(m))
         /\ inner' = inner \o WirePart(m).bytes
    /\ UNCHANGED <<frame, encoded, flip, index, yielded, rb>>
    /\ UNCHANGED <<antVars, chanVars>>

\* One bit of a single encoded frame (sync byte to checksum) is flipped on
\* the way to the reader
FlipBit ==
    /\ rb = "fill" /\ flip = None
    /\ Len(parts) = 1 /\ parts[1].kind = "frame"
    /\ \E byte \in 1..(Len(parts[1].mesg.data) + 4), bit \in 0..7 :
         /\ flip' = Some(<<byte, bit>>)
         /\ inner' = [inner EXCEPT ![byte] = Xor(@, 2 ^ bit)]
    /\ UNCHANGED <<frame, encoded, parts, index, yielded, rb>>
    /\ UNCHANGED <<antVars, chanVars>>

\* ReadBuffer::new(&buffer)
ReadBufferNew ==
    /\ rb = "fill" /\ parts # << >>
    /\ rb' = "iter"
    /\ index' = 0
    /\ UNCHANGED <<frame, encoded, parts, flip, inner, yielded>>
    /\ UNCHANGED <<antVars, chanVars>>

\* read_buffer.next(); a call after None finds the index at the end again
IterNext ==
    /\ rb \in {"iter", "end"}
    /\ LET r == ReadBufferNext(inner, index) IN
       IF r.panic
       THEN rb' = "panic" /\ UNCHANGED <<index, yielded>>
       ELSE /\ index' = r.index
            /\ IF r.item = None
               THEN rb' = "end" /\ UNCHANGED yielded
               ELSE rb' = "iter" /\ yielded' = Append(yielded, r.item[1])
    /\ UNCHANGED <<frame, encoded, parts, flip, inner>>
    /\ UNCHANGED <<antVars, chanVars>>

CodecNext ==
    \/ AppendFrame \/ AppendNoise \/ AppendWire \/ FlipBit
    \/ ReadBufferNew
    \/ IterNext

CodecSpec == CodecInit /\ [][CodecNext]_vars

---------------------------------------------------------------------------
(* Properties *)

\* The loop routes the Response of the given type in this step
Routing(type) == pc = "route" /\ pc' # "route" /\ mesg[1].type = type

\* The loop, Running, takes a request of the given type off the queue in
\* this step
Receiving(type) ==
    /\ pc = "request" /\ pc' # "request"
    /\ state = "Running"
    /\ request # << >> /\ Head(request).type = type

\* The bytes of the messages as the wire format documents them
NetworkKeyMessage ==
    [id |-> 70, data |-> <<1, 185, 165, 33, 251, 189, 114, 195, 69>>]
ResetMessage ==
    [id |-> 74, data |-> <<0, 0, 0, 0, 0, 0, 0, 0, 0, 0, 0, 0, 0, 0, 0>>]
AssignMessage(n, d) == [id |-> 66, data |-> <<n, d.channel_type, 1>>]
ChannelIdMessage(n, d) ==
    [id |-> 81, data |-> <<n, d.device_id % 256, d.device_id \div 256,
                           d.device_type, d.transmission_type>>]
SearchTimeoutMessage(n, d) == [id |-> 68, data |-> <<n, d.timeout>>]
PeriodMessage(n, d) ==
    [id |-> 67, data |-> <<n, d.period % 256, d.period \div 256>>]
FrequencyMessage(n, d) == [id |-> 69, data |-> <<n, d.frequency>>]
OpenMessage(n) == [id |-> 75, data |-> <<n>>]
CloseMessage(n) == [id |-> 76, data |-> <<n>>]
UnassignMessage(n) == [id |-> 65, data |-> <<n>>]

ChannelExistsError(n) ==
    [type |-> "Error", error |-> [kind |-> "ChannelExists", number |-> n]]

\* C1 as stated: in Reset a routed Startup writes the network-key message
\* (id 0x46, network 1, the 8-byte key) and the state becomes SetNetworkKey;
\* in SetNetworkKey a routed ChannelResponse with code ResponseNoError makes
\* the state Running.
C1_BringUpAsStated ==
    [][ /\ (Routing("Startup") /\ state = "Reset")
            => (wrote' = <<NetworkKeyMessage>> /\ state' = "SetNetworkKey")
        /\ (Routing("ChannelResponse") /\ state = "SetNetworkKey" /\ mesg[1].code = 0)
            => state' = "Running" ]_vars

\* C1, amended: in Reset a routed Startup either writes exactly the
\* network-key message and the state becomes SetNetworkKey, or (the write
\* failed) nothing is written and the state is Reset again; the loop goes on
\* in both cases.  In SetNetworkKey a routed ChannelResponse with code
\* ResponseNoError makes the state Running.
C1_BringUp ==
    [][ /\ (Routing("Startup") /\ state = "Reset")
            => /\ \/ wrote' = <<NetworkKeyMessage>> /\ state' = "SetNetworkKey"
                  \/ wrote' = << >> /\ state' = "Reset"
               /\ pc' = "iter"
        /\ (Routing("ChannelResponse") /\ state = "SetNetworkKey" /\ mesg[1].code = 0)
            => (state' = "Running" /\ wrote' = << >> /\ pc' = "iter") ]_vars

C1_Witness ==
    op = "Route" /\ state = "SetNetworkKey" /\ wrote = <<NetworkKeyMessage>>

\* The configuration states in order, the acknowledgement each waits for
\* and the message its acknowledgement releases
ConfigStates ==
    <<"Assign", "SetDeviceId", "SetTimeout", "SetPeriod", "SetFrequency", "Open">>
ExpectedAck == <<66, 81, 68, 67, 69>>
NextConfigMessage(k, n, d) ==
    CASE k = 1 -> ChannelIdMessage(n, d)
      [] k = 2 -> SearchTimeoutMessage(n, d)
      [] k = 3 -> PeriodMessage(n, d)
      [] k = 4 -> FrequencyMessage(n, d)
      [] k = 5 -> OpenMessage(n)

\* C2: a new Channel is in state Assign, and the acknowledgement expected
\* in each of Assign, SetDeviceId, SetTimeout, SetPeriod, SetFrequency moves
\* the Channel to the next state and returns exactly the next configuration
\* message, built from the channel's number and Config, which stay as they
\* were.
C2_Lifecycle ==
    /\ chan.state = "Assign" /\ chan_ret = << >>
    /\ [][ \A k \in 1..5 :
             (chan.state = ConfigStates[k] /\ mesg'[1].message_id = ExpectedAck[k])
               => /\ chan'.state = ConfigStates[k + 1]
                  /\ chan_ret' = <<NextConfigMessage(k, chan.number, chan.device)>>
                  /\ chan'.number = chan.number
                  /\ chan'.device = chan.device ]_vars

C2_Witness ==
    /\ chan = [state |-> "Open", number |-> 7, device |-> OtherConfig]
    /\ chan_ret = <<OpenMessage(7)>>

\* C3: OpenChannel(n, config) for an occupied slot n emits
\* Error(ChannelExists(n)), writes nothing and leaves every slot, the
\* Channel in slot n included, as it was; the loop goes on.
C3_OpenTwice ==
    [][ (/\ Receiving("OpenChannel")
         /\ Head(request).number < 8
         /\ channels[Head(request).number] # << >>)
          => /\ emitted' = <<ChannelExistsError(Head(request).number)>>
             /\ wrote' = << >>
             /\ channels' = channels
             /\ state' = state
             /\ pc' = "read" ]_vars

C3_Witness ==
    /\ op = "RecvRequest"
    /\ emitted = <<ChannelExistsError(0)>>
    /\ channels[0] = <<[state |-> "Open", number |-> 0, device |-> OtherConfig]>>
    /\ channels[1] # << >>

\* The message an EventChannelClosed for channel n is answered with
RecoveryMessage(n) ==
    IF channels[n] # << >> THEN OpenMessage(n) ELSE UnassignMessage(n)

ChannelClosedRouted ==
    /\ Routing("ChannelResponse")
    /\ state = "Running"
    /\ mesg[1].message_id = 1 /\ mesg[1].code = 7
    /\ mesg[1].channel < 8

C5_ThreeResetsBeforeFailure ==
    result = "ErrReset" => resets_sent = 3

\* C6: while the state is not Running no step removes a request from the
\* queue or changes a channel slot, and the request part of the loop writes
\* nothing, emits nothing and goes back to reading.
C6_RequestsOnlyWhenRunning ==
    [][ state # "Running"
          => /\ Len(request') >= Len(request)
             /\ SubSeq(request', 1, Len(request)) = request
             /\ channels' = channels
             /\ (pc = "request" /\ pc' # "request")
                  => (request' = request /\ wrote' = << >> /\ emitted' = << >>
                      /\ pc' = "read") ]_vars

C6_Witness ==
    /\ op = "SkipRequests" /\ state = "SetNetworkKey"
    /\ request # << >> /\ Head(request).type = "OpenChannel"

\* C7: a Startup routed in SetNetworkKey or Running makes the state Reset
\* and writes nothing.
C7_StartupForcesReset ==
    [][ (Routing("Startup") /\ state \in {"SetNetworkKey", "Running"})
          => (state' = "Reset" /\ wrote' = << >> /\ pc' = "iter") ]_vars

C7_Witness ==
    /\ op = "Route" /\ state = "Reset" /\ wrote = << >>
    /\ channels[0] # << >>

\* C8: in NotReady a routed message of any kind changes neither the state
\* nor a slot, writes nothing and emits nothing, and the state leaves
\* NotReady only in the Timeout arm, for Reset, with nothing sent.
C8_NotReadyDrops ==
    [][ state = "NotReady"
          => /\ (pc = "route" /\ pc' # "route")
                  => (state' = "NotReady" /\ channels' = channels
                      /\ wrote' = << >> /\ emitted' = << >> /\ pc' = "iter")
             /\ state' # "NotReady"
                  => (pc = "timeout" /\ state' = "Reset"
                      /\ wrote' = << >> /\ emitted' = << >>) ]_vars

C8_Witness ==
    op = "Route" /\ state = "NotReady" /\ pc = "iter"

\* Every occupied slot i holds a Channel whose number is i
SlotNumbersMatch ==
    \A i \in 0..7 : channels[i] # << >> => channels[i][1].number = i

OpenFreeSlot ==
    /\ Receiving("OpenChannel")
    /\ Head(request).number < 8
    /\ channels[Head(request).number] = << >>

StoredChannel(n, d) ==
    [channels EXCEPT ![n] = <<[state |-> "Assign", number |-> n, device |-> d]>>]

CloseRequest ==
    /\ Receiving("CloseChannel")
    /\ Head(request).number < 8

UsbError == [type |-> "Error", error |-> [kind |-> "UsbDeviceError"]]

\* The loop has returned or its thread has panicked: nothing happens any more
Ended == pc = "done" => UNCHANGED vars

\* C11 as stated: processing Quit writes the reset command and ends the loop
\* with a success result, no Error emitted; nothing is read or processed
\* after it.
C11_QuitAsStated ==
    [][ /\ Receiving("Quit")
            => /\ wrote' = <<ResetMessage>>
               /\ pc' = "done" /\ result' = "Ok" /\ emitted' = << >>
        /\ Ended ]_vars

\* C11, amended: processing Quit ends the loop in that step, either with
\* the reset command written, a success result and nothing emitted, or (the
\* write failed) with nothing written and the transport error as the result,
\* reported to the caller; nothing is read or processed after it.
C11_Quit ==
    [][ /\ Receiving("Quit")
            => /\ pc' = "done"
               /\ request' = Tail(request)
               /\ channels' = channels /\ state' = state
               /\ \/ wrote' = <<ResetMessage>> /\ result' = "Ok" /\ emitted' = << >>
                  \/ wrote' = << >> /\ result' = "ErrUsb" /\ emitted' = <<UsbError>>
        /\ Ended ]_vars

C11_Witness ==
    /\ op = "RecvQuit" /\ pc = "done" /\ result = "Ok"
    /\ wrote = <<ResetMessage>> /\ emitted = << >>

\* C12 as stated: when Quit is processed a close-channel message is written
\* for every occupied channel slot before the loop returns.
C12_QuitClosesChannels ==
    [][ Receiving("Quit")
          => \A n \in 0..7 :
               channels[n] # << >>
                 => \E i \in 1..Len(wrote') : wrote'[i] = CloseMessage(n) ]_vars

\* C13 as stated, its eventual exit alone: once the caller has dropped its
\* Sender and the queue is drained, the loop eventually exits, whatever the
\* device state is (C13 says more: that this exit is a clean one).
C13_DisconnectEndsLoop ==
    (~connected /\ request = << >>) ~> (pc = "done")

\* The loop ends in this step and reports the transport error to the caller
Reported == pc' = "done" /\ result' = "ErrUsb" /\ emitted' = <<UsbError>>

\* A ResponseNoError acknowledgement that releases the next configuration
\* message of the Channel in slot n, in configuration state k
AckReleases(n, k) ==
    /\ Routing("ChannelResponse") /\ state = "Running"
    /\ mesg[1].channel = n /\ mesg[1].code = 0
    /\ channels[n] # << >>
    /\ channels[n][1].state = ConfigStates[k]
    /\ mesg[1].message_id = ExpectedAck[k]

\* C14 as stated: at every read and at every write of the loop (reset,
\* network key, assign, close, raw Send, re-open/unassign, next configuration
\* message) either the transfer is done or the loop ends in that step with
\* the transport error reported to the caller.
C14_TransportFailuresReported ==
    [][ /\ (pc = "read" /\ pc' = "done") => Reported
        /\ (pc = "timeout" /\ pc' # "timeout" /\ state = "Reset" /\ result' # "ErrReset")
             => (wrote' = <<ResetMessage>> \/ Reported)
        /\ (Routing("Startup") /\ state = "Reset")
             => (wrote' = <<NetworkKeyMessage>> \/ Reported)
        /\ OpenFreeSlot
             => (wrote' = <<AssignMessage(Head(request).number, Head(request).device)>>
                 \/ Reported)
        /\ (CloseRequest /\ channels[Head(request).number] # << >>)
             => (wrote' = <<CloseMessage(Head(request).number)>> \/ Reported)
        /\ Receiving("Send") => (wrote' = <<Head(request).mesg>> \/ Reported)
        /\ Receiving("Quit") => (wrote' = <<ResetMessage>> \/ Reported)
        /\ ChannelClosedRouted
             => (wrote' = <<RecoveryMessage(mesg[1].channel)>> \/ Reported)
        /\ \A n \in 0..7, k \in 1..5 :
             AckReleases(n, k)
               => (wrote' = <<NextConfigMessage(k, n, channels[n][1].device)>>
                   \/ Reported) ]_vars

---------------------------------------------------------------------------
(* Properties of the codec *)

\* The XOR of a sequence of bytes, bit by bit: bit k is set when an odd
\* number of the bytes have it set
ParityBit(bytes, k) ==
    Cardinality({i \in 1..Len(bytes) : (bytes[i] \div (2 ^ k)) % 2 = 1}) % 2

XorOf(bytes) ==
    ParityBit(bytes, 0) + 2 * ParityBit(bytes, 1) + 4 * ParityBit(bytes, 2)
    + 8 * ParityBit(bytes, 3) + 16 * ParityBit(bytes, 4)
    + 32 * ParityBit(bytes, 5) + 64 * ParityBit(bytes, 6)
    + 128 * ParityBit(bytes, 7)

\* C15 as stated: Message::encode returns len(payload) + 4 bytes, with
\* nothing after the checksum.
C15_EncodeLengthAsStated ==
    frame # << >> => Len(encoded) = Len(frame[1].data) + 4

\* C15, amended: Message::encode returns len(payload) + 6 bytes: the sync
\* byte, the length byte, the id byte, the payload and the checksum byte
\* (len(payload) + 4 bytes whose XOR is zero), and after the checksum two
\* zero bytes.
C15_EncodeLength ==
    frame # << >>
      => LET L == Len(frame[1].data) IN
         /\ Len(encoded) = L + 6
         /\ encoded[1] = 164
         /\ XorOf(SubSeq(encoded, 1, L + 4)) = 0
         /\ encoded[L + 5] = 0 /\ encoded[L + 6] = 0

C15_Witness ==
    frame = <<ResetMessage>> /\ Len(encoded) = 21 /\ encoded[19] = 225

\* C16: for a payload of length L the frame Message::encode produces has
\* byte 0 = 0xA4, byte 1 = L, byte 2 = id, bytes 3..3+L the payload and byte
\* 3+L the XOR of the bytes before it, so that the XOR of bytes 0..3+L is
\* zero.  (Bytes are counted from 0 here, from 1 in the sequence.)
C16_FrameLayout ==
    frame # << >>
      => LET L == Len(frame[1].data) IN
         /\ Len(encoded) >= L + 4
         /\ encoded[1] = 164
         /\ encoded[2] = L
         /\ encoded[3] = frame[1].id
         /\ SubSeq(encoded, 4, 3 + L) = frame[1].data
         /\ encoded[4 + L] = XorOf(SubSeq(encoded, 1, 3 + L))
         /\ XorOf(SubSeq(encoded, 1, 4 + L)) = 0

C16_Witness ==
    /\ frame = <<[id |-> 78, data |-> <<0, 1, 2, 3, 4, 5, 6, 7, 8>>]>>
    /\ SubSeq(encoded, 1, 13) = <<164, 9, 78, 0, 1, 2, 3, 4, 5, 6, 7, 8, 235>>

\* The (id, payload) pairs a Response can hold: a Startup with one byte, a
\* ResponseEvent with three, a BroadcastData with nine
Decodable(m) ==
    \/ m.id = 111 /\ Len(m.data) = 1
    \/ m.id = 64 /\ Len(m.data) = 3
    \/ m.id = 78 /\ Len(m.data) = 9

\* The Response that stands for such a pair
AsResponse(m) ==
    CASE m.id = 111 -> [type |-> "Startup", reason |-> m.data[1]]
      [] m.id = 64 -> [type |-> "ChannelResponse", channel |-> m.data[1],
                       message_id |-> m.data[2], code |-> m.data[3]]
      [] m.id = 78 -> [type |-> "BroadcastData", channel |-> m.data[1],
                       data |-> SubSeq(m.data, 2, 9)]

\* The message id and the payload of a Response
ResponseId(r) ==
    CASE r.type = "Startup" -> 111
      [] r.type = "ChannelResponse" -> 64
      [] r.type = "BroadcastData" -> 78

ResponsePayload(r) ==
    CASE r.type = "Startup" -> <<r.reason>>
      [] r.type = "ChannelResponse" -> <<r.channel, r.message_id, r.code>>
      [] r.type = "BroadcastData" -> <<r.channel>> \o r.data

\* A ReadBuffer over exactly one encoded Message, as encode returned it
SingleFrame ==
    /\ rb # "fill" /\ flip = << >>
    /\ Len(parts) = 1 /\ parts[1].kind = "frame"

\* C17 as stated: iterating a ReadBuffer over Message::encode(id, payload)
\* yields exactly one message, with the id and the payload given.
C17_RoundTripAsStated ==
    (SingleFrame /\ rb \in {"end", "panic"})
      => /\ rb = "end"
         /\ Len(yielded) = 1
         /\ ResponseId(yielded[1]) = parts[1].mesg.id
         /\ ResponsePayload(yielded[1]) = parts[1].mesg.data

\* C17, amended: for a pair a Response can hold, the first call of next
\* yields the Response with that id and payload and leaves the index behind
\* the checksum, and the second returns None (the two zero bytes are skipped);
\* a Startup with more than one byte of payload is decoded with its first
\* byte only; for every other pair the first call panics and nothing is
\* yielded.
C17_RoundTrip ==
    SingleFrame
      => LET m == parts[1].mesg IN
         IF Decodable(m) \/ (m.id = 111 /\ Len(m.data) > 1)
         THEN LET r == IF Decodable(m) THEN AsResponse(m)
                       ELSE [type |-> "Startup", reason |-> m.data[1]] IN
              /\ rb # "panic"
              /\ yielded \in {<< >>, <<r>>}
              /\ (yielded = << >>) = (index = 0)
              /\ (yielded # << >> /\ rb = "iter") => index = Len(m.data) + 4
              /\ rb = "end" => (yielded = <<r>> /\ index = Len(inner))
         ELSE /\ rb # "end"
              /\ yielded = << >>

C17_Witness ==
    /\ SingleFrame /\ rb = "end"
    /\ parts[1].mesg = [id |-> 78, data |-> <<0, 1, 2, 3, 4, 5, 6, 7, 8>>]
    /\ yielded = <<[type |-> "BroadcastData", channel |-> 0,
                    data |-> <<1, 2, 3, 4, 5, 6, 7, 8>>]>>

\* C18 as stated: a ReadBuffer over an encoded frame with one bit flipped
\* (in the sync, length, id, payload or checksum byte) yields no message: the
\* frame is rejected and the iteration ends with None.
C18_BitFlipRejected ==
    (flip # << >> /\ Decodable(parts[1].mesg) /\ rb \in {"end", "panic"})
      => (rb = "end" /\ yielded = << >>)

\* Encoded frames of pairs a Response can hold, with runs of other bytes
\* only between two of them
ResyncShape ==
    /\ flip = << >> /\ parts # << >>
    /\ \A i \in 1..Len(parts) :
         IF parts[i].kind = "frame" THEN Decodable(parts[i].mesg)
         ELSE /\ parts[i].kind = "noise"
              /\ 1 < i /\ i < Len(parts)
              /\ parts[i - 1].kind = "frame" /\ parts[i + 1].kind = "frame"

IsFrame(part) == part.kind = "frame"

\* The Responses of the frames of the buffer, in buffer order
FramesOf(ps) ==
    LET fs == SelectSeq(ps, IsFrame) IN
    [i \in 1..Len(fs) |-> AsResponse(fs[i].mesg)]

\* C19 as stated: a buffer of valid frames with runs of bytes between them
\* that are no valid frame decodes to exactly the valid frames, in buffer
\* order, followed by end-of-sequence.
C19_Resync ==
    (ResyncShape /\ rb \in {"end", "panic"})
      => (rb = "end" /\ yielded = FramesOf(parts))

\* An id that is none of Startup, ResponseEvent and BroadcastData
UnknownId(m) == m.id \notin {111, 64, 78}

\* A ReadBuffer over encoded frames only, each of a pair a Response can
\* hold or of an unknown id, and at least one of an unknown id
FramesWithUnknownId ==
    /\ rb # "fill" /\ flip = << >>
    /\ \A i \in 1..Len(parts) :
         /\ parts[i].kind = "frame"
         /\ Decodable(parts[i].mesg) \/ UnknownId(parts[i].mesg)
    /\ \E i \in 1..Len(parts) : UnknownId(parts[i].mesg)

\* The position of the first frame of an unknown id
FirstUnknown ==
    CHOOSE j \in 1..Len(parts) :
      /\ UnknownId(parts[j].mesg)
      /\ \A i \in 1..(j - 1) : ~UnknownId(parts[i].mesg)

\* C20: decoding a checksum-valid frame of an unknown id is fatal.  In a
\* buffer of valid frames the frames before the first one of an unknown id
\* are yielded, the call of next that reaches that frame panics and yields
\* nothing, the iteration never ends with None, no later frame is ever
\* yielded, and nothing happens after the panic.
C20_UnknownIdIsFatal ==
    /\ [](FramesWithUnknownId
            => /\ rb # "end"
               /\ Len(yielded) < FirstUnknown
               /\ \A i \in 1..Len(yielded) : yielded[i] = AsResponse(parts[i].mesg)
               /\ rb = "panic" => Len(yielded) = FirstUnknown - 1)
    /\ [][ /\ (FramesWithUnknownId /\ rb = "iter" /\ Len(yielded) = FirstUnknown - 1)
               => (rb' = "panic" /\ yielded' = yielded)
           /\ rb = "panic" => UNCHANGED vars ]_vars

C20_Witness ==
    /\ rb = "panic" /\ FramesWithUnknownId
    /\ Len(parts) = 3
    /\ parts[1].mesg = [id |-> 111, data |-> <<32>>]
    /\ parts[2].mesg = [id |-> 75, data |-> <<0>>]
    /\ parts[3].mesg = [id |-> 111, data |-> <<0>>]
    /\ yielded = <<[type |-> "Startup", reason |-> 32]>>

---------------------------------------------------------------------------
(* Properties of routing, of the bring-up and of the command queue *)

\* A step of the run loop (the caller's steps leave pc alone)
LoopStep == pc' # pc

\* C21: a BroadcastData routed while the state is Running is emitted to the
\* caller exactly once in that step, channel and 8-byte payload as they
\* arrived, whether or not the addressed slot is occupied; nothing is
\* written, and no slot and no state changes.  Routed in NotReady, Reset or
\* SetNetworkKey it is dropped: nothing is emitted, written or changed.  No
\* other step of the loop emits a BroadcastData, so the caller sees the
\* frames in the order they were routed.
C21_BroadcastForwarded ==
    [][ /\ Routing("BroadcastData")
            => /\ emitted' = IF state = "Running"
                             THEN <<[type |-> "BroadcastData",
                                     mesg |-> [type |-> "BroadcastData",
                                               channel |-> mesg[1].channel,
                                               data |-> mesg[1].data]]>>
                             ELSE << >>
               /\ Len(mesg[1].data) = 8
               /\ wrote' = << >>
               /\ channels' = channels
               /\ state' = state
               /\ pc' = "iter"
        /\ (LoopStep /\ \E i \in 1..Len(emitted') : emitted'[i].type = "BroadcastData")
            => (Routing("BroadcastData") /\ state = "Running") ]_vars

C21_Witness ==
    /\ op = "Route" /\ state = "Running" /\ pc = "iter"
    /\ channels[1] = << >> /\ channels[0] # << >>
    /\ emitted = <<[type |-> "BroadcastData",
                    mesg |-> [type |-> "BroadcastData", channel |-> 1,
                              data |-> <<1, 2, 3, 4, 5, 6, 7, 8>>]]>>

\* C22: bring-up liveness.  With a dongle that answers every reset command
\* with a Startup before a read times out and every network-key command
\* with a ChannelResponse of code ResponseNoError, reads that time out
\* again and again, and no failing read or write, the run loop started in
\* NotReady eventually reaches state Running, and it never returns the
\* Reset error.
C22_BringUpCompletes ==
    /\ state = "NotReady"
    /\ <>(state = "Running")
    /\ [](result # "ErrReset")

C22_Witness ==
    /\ state = "Running" /\ op = "Route" /\ result = "running"
    /\ resets_sent = 1 /\ reset_attempts = 1

\* C23: Channel::route changes the channel's state only when the
\* acknowledgement's originating id is the one the current state waits for,
\* and then by one state forward.  In each of Assign, SetDeviceId,
\* SetTimeout, SetPeriod and SetFrequency every other originating id
\* returns no message and leaves state, number and Config as they were, so
\* a duplicated or out-of-order acknowledgement neither advances nor
\* rewinds the channel.
C23_UnexpectedAckIgnored ==
    [][ /\ \A k \in 1..5 :
              (chan.state = ConfigStates[k] /\ mesg'[1].message_id # ExpectedAck[k])
                => (chan' = chan /\ chan_ret' = << >>)
        /\ chan'.state # chan.state
              => \E k \in 1..5 : /\ chan.state = ConfigStates[k]
                                 /\ mesg'[1].message_id = ExpectedAck[k]
                                 /\ chan'.state = ConfigStates[k + 1] ]_vars

\* The acknowledgement of the assignment arrives again in SetPeriod
C23_Witness ==
    /\ chan = [state |-> "SetPeriod", number |-> 3, device |-> PowerMeterConfig]
    /\ mesg = <<[type |-> "ChannelResponse", channel |-> 3, message_id |-> 66,
                 code |-> 0]>>
    /\ chan_ret = << >>

\* A ChannelResponse that is not an event is routed in state Running
ResponseRouted ==
    /\ Routing("ChannelResponse") /\ state = "Running"
    /\ mesg[1].message_id # 1

\* The position of a configuration state in ConfigStates
StateIndex(s) == CHOOSE k \in 1..6 : ConfigStates[k] = s

\* The Channel in slot n waits for the acknowledgement of id
Awaited(n, id) ==
    /\ channels[n] # << >>
    /\ StateIndex(channels[n][1].state) <= 5
    /\ id = ExpectedAck[StateIndex(channels[n][1].state)]

EventRouted == Routing("ChannelResponse") /\ mesg[1].message_id = 1

\* C25: a ChannelResponse with originating id 1 never reaches a Channel: in
\* no state does routing it change a channel slot.  In state Running an
\* event of any code, EventChannelClosed and the codes code() does not know
\* included, leaves the device state as it was, and an event with code
\* EventRxSearchTimeout (1), EventRxFail (2) or EventRxFailGoToSearch (8)
\* writes nothing, emits nothing and lets the loop go on.
C25_EventsBypassChannels ==
    [][ EventRouted
          => /\ channels' = channels
             /\ state = "Running"
                  => /\ state' = state
                     /\ mesg[1].code \in {1, 2, 8}
                          => /\ wrote' = << >> /\ io' = "none"
                             /\ emitted' = << >>
                             /\ pc' = "iter" ]_vars

\* EventChannelClosed for channel 0 was routed while its Channel was being
\* configured: the Channel is where it was and the open command was written
C25_Witness ==
    /\ op = "Route" /\ state = "Running" /\ io = "ok"
    /\ channels[0] # << >> /\ channels[0][1].state = "SetPeriod"
    /\ wrote = <<OpenMessage(0)>>

\* The status bytes ChannelResponseMessage::code knows, ResponseNoError apart
KnownErrorBytes == {1, 2, 3, 5, 6, 7, 8, 9, 21}

\* C26 as stated: in state Running a ChannelResponse that is not an event
\* and whose status byte is not ResponseNoError is only logged: device state
\* and slots are unchanged, nothing is written or emitted, and the loop keeps
\* running.
C26_ErrorCodesLoggedAsStated ==
    [][ (ResponseRouted /\ mesg[1].code # 0)
          => /\ state' = state /\ channels' = channels
             /\ wrote' = << >> /\ emitted' = << >>
             /\ pc' = "iter" /\ result' = "running" ]_vars

\* C26, amended: in state Running a ChannelResponse that is not an event
\* and whose status byte is not ResponseNoError changes neither the device
\* state nor a slot, and nothing is written or emitted.  If the byte is one
\* code() knows (0x01..0x03, 0x05..0x09, 0x15: ChannelInWrongState and the
\* others) the response is only logged and the loop keeps running; for any
\* other byte code() is unimplemented and the loop thread panics.
C26_ErrorCodesLogged ==
    [][ (ResponseRouted /\ mesg[1].code # 0)
          => /\ state' = state /\ channels' = channels
             /\ wrote' = << >> /\ io' = "none" /\ emitted' = << >>
             /\ IF mesg[1].code \in KnownErrorBytes
                THEN pc' = "iter" /\ result' = "running"
                ELSE pc' = "done" /\ result' = "Panic" ]_vars

\* ChannelInWrongState for the assignment of channel 0 was routed and logged
C26_Witness ==
    /\ op = "Route" /\ state = "Running" /\ pc = "iter" /\ result = "running"
    /\ mesg = <<[type |-> "ChannelResponse", channel |-> 0, message_id |-> 66,
                 code |-> 21]>>
    /\ channels[0] # << >> /\ channels[0][1].state = "Assign"
    /\ wrote = << >> /\ emitted = << >>

\* C27 as stated: in state SetNetworkKey a ChannelResponse with any status
\* byte other than ResponseNoError is dropped, and so is BroadcastData: the
\* state stays SetNetworkKey, nothing is written and the loop keeps running.
C27_KeyErrorsDroppedAsStated ==
    [][ (/\ state = "SetNetworkKey"
         /\ \/ Routing("ChannelResponse") /\ mesg[1].code # 0
            \/ Routing("BroadcastData"))
          => /\ state' = "SetNetworkKey"
             /\ wrote' = << >>
             /\ pc' = "iter" /\ result' = "running" ]_vars

\* C27, amended: in state SetNetworkKey a BroadcastData, and a
\* ChannelResponse whose status byte is one code() knows other than
\* ResponseNoError, is dropped: the state stays SetNetworkKey, no slot
\* changes, nothing is written or emitted and the loop keeps running.  For a
\* ChannelResponse with any other status byte code() is unimplemented and
\* the loop thread panics, the state still SetNetworkKey and nothing
\* written.
C27_KeyErrorsDropped ==
    [][ (/\ state = "SetNetworkKey"
         /\ \/ Routing("ChannelResponse") /\ mesg[1].code # 0
            \/ Routing("BroadcastData"))
          => /\ state' = "SetNetworkKey" /\ channels' = channels
             /\ wrote' = << >> /\ io' = "none" /\ emitted' = << >>
             /\ IF mesg[1].type = "ChannelResponse"
                   /\ mesg[1].code \notin KnownErrorBytes
                THEN pc' = "done" /\ result' = "Panic"
                ELSE pc' = "iter" /\ result' = "running" ]_vars

\* A ChannelResponse with code ChannelInWrongState was routed in
\* SetNetworkKey and dropped
C27_Witness ==
    /\ op = "Route" /\ state = "SetNetworkKey" /\ pc = "iter"
    /\ result = "running" /\ wrote = << >>
    /\ mesg = <<[type |-> "ChannelResponse", channel |-> 0, message_id |-> 66,
                 code |-> 21]>>

\* C28: when a Startup is routed in state Reset and the write of the
\* network-key command fails, the state after the step is Reset, nothing
\* was written, no error is reported and the loop keeps running.  Any other
\* message routed in state Reset, a ChannelResponse of whatever status byte
\* included, attempts no write and leaves state and slots as they were, the
\* loop running.
C28_KeyWriteFailure ==
    [][ (Routing(mesg[1].type) /\ state = "Reset")
          => /\ io' = "failed"
                  => /\ mesg[1].type = "Startup"
                     /\ state' = "Reset" /\ wrote' = << >>
             /\ mesg[1].type # "Startup"
                  => /\ state' = "Reset" /\ wrote' = << >> /\ io' = "none"
             /\ (io' = "failed" \/ mesg[1].type # "Startup")
                  => /\ channels' = channels /\ emitted' = << >>
                     /\ pc' = "iter" /\ result' = "running" ]_vars

\* A Startup was routed in Reset and the write of the network key failed
C28_Witness ==
    /\ op = "Route" /\ io = "failed" /\ state = "Reset" /\ pc = "iter"
    /\ mesg = <<[type |-> "Startup", reason |-> 0]>>
    /\ wrote = << >> /\ result = "running"

\* What processing the command req does, seen in one step of the loop
Processed(req) ==
    LET n == req.number IN
    CASE req.type = "Quit" ->
           /\ pc' = "done"
           /\ wrote' = <<ResetMessage>> \/ io' = "failed"
      [] req.type = "Send" ->
           \/ wrote' = <<req.mesg>> /\ io' = "ok" /\ pc' = "read"
           \/ wrote' = << >> /\ io' = "failed" /\ result' = "Panic"
      [] req.type = "OpenChannel" ->
           IF channels[n] # << >>
           THEN /\ emitted' = <<ChannelExistsError(n)>>
                /\ wrote' = << >> /\ pc' = "read"
           ELSE \/ /\ wrote' = <<AssignMessage(n, req.device)>> /\ io' = "ok"
                   /\ channels'[n] # << >> /\ pc' = "read"
                \/ wrote' = << >> /\ io' = "failed" /\ result' = "Panic"
      [] req.type = "CloseChannel" ->
           IF channels[n] # << >>
           THEN \/ /\ wrote' = <<CloseMessage(n)>> /\ io' = "ok"
                   /\ channels'[n] = << >> /\ pc' = "read"
                \/ wrote' = << >> /\ io' = "failed" /\ result' = "Panic"
           ELSE wrote' = << >> /\ io' = "none" /\ pc' = "read"

\* C29: the queue changes only by the caller appending a command and by
\* the loop taking the first one off; the loop takes a command off only
\* when it polls the queue in state Running, one command per poll and one
\* poll per iteration (after the poll the loop reads the transport again or
\* ends), and the command it takes is processed in that step.  So commands
\* are processed in the order they were submitted, and a command submitted
\* while the state is not Running stays queued, behind the ones before it,
\* until a poll in state Running finds it first in the queue.
C29_OneCommandInOrder ==
    [][ /\ \/ request' = request
           \/ /\ ~LoopStep
              /\ \E req \in QueueRequests : request' = Append(request, req)
           \/ /\ pc = "request" /\ state = "Running" /\ request # << >>
              /\ request' = Tail(request)
        /\ (pc = "request" /\ LoopStep)
              => /\ pc' \in {"read", "done"}
                 /\ (state = "Running" /\ request # << >>)
                      => (request' = Tail(request) /\ Processed(Head(request)))
                 /\ state # "Running" => request' = request ]_vars

\* OpenChannel(0) was taken off and processed, the CloseChannel(0) submitted
\* after it is still queued
C29_Witness ==
    /\ op = "RecvRequest" /\ state = "Running" /\ pc = "read"
    /\ wrote = <<AssignMessage(0, PowerMeterConfig)>>
    /\ request = <<[type |-> "CloseChannel", number |-> 0]>>
    /\ channels[0] # << >>

\* The edges of the device state
StateEdges ==
    { <<"NotReady", "Reset">>, <<"Reset", "SetNetworkKey">>,
      <<"SetNetworkKey", "Running">>, <<"SetNetworkKey", "Reset">>,
      <<"Running", "Reset">> }

\* C30: within one invocation of the run loop the device state is one of
\* NotReady, Reset, SetNetworkKey and Running and changes only along
\* NotReady -> Reset, Reset -> SetNetworkKey, SetNetworkKey -> Running,
\* SetNetworkKey -> Reset and Running -> Reset; so a state that is not
\* NotReady is never followed by NotReady, and Running is entered only from
\* SetNetworkKey.
C30_StateEdges ==
    /\ [](state \in {"NotReady", "Reset", "SetNetworkKey", "Running"})
    /\ [][ /\ state' # state => <<state, state'>> \in StateEdges
           /\ state # "NotReady" => state' # "NotReady"
           /\ (state' = "Running" /\ state # "Running") => state = "SetNetworkKey"
       ]_vars

\* The loop has been Running, with channel 0 opened, and a Startup took it
\* back to Reset
C30_Witness ==
    /\ op = "Route" /\ state = "Reset" /\ io = "none"
    /\ mesg = <<[type |-> "Startup", reason |-> 0]>>
    /\ channels[0] # << >> /\ resets_sent = 1

---------------------------------------------------------------------------
(* Properties of the channel slots, of shutdown and of the decoder's bounds *)

\* C31 as stated, the loss of the device: when a Startup is routed in
\* state Running or SetNetworkKey (the dongle rebooted), every Channel is
\* removed from its slot, so that no slot holds a Channel from before the
\* reboot when the state is Running again.
C31_DeviceLossFreesSlots ==
    [][ (Routing("Startup") /\ state \in {"Running", "SetNetworkKey"})
          => \A n \in 0..7 : channels'[n] = << >> ]_vars

\* C32: a Channel's configuration state is always one of Assign,
\* SetDeviceId, SetTimeout, SetPeriod, SetFrequency and Open, and no
\* acknowledgement takes Channel::route to its unimplemented!() arm; the
\* state changes only to the next one in that order; and a Channel in Open
\* stays as it is and returns no message, whatever acknowledgement is routed
\* to it.
C32_ForwardOnly ==
    /\ [](/\ \E k \in 1..6 : chan.state = ConfigStates[k]
          /\ \A id \in FedIds : ~ChannelRoute(chan, id).abort)
    /\ [][ /\ chan'.state # chan.state
                => StateIndex(chan'.state) = StateIndex(chan.state) + 1
           /\ chan.state = "Open" => (chan' = chan /\ chan_ret' = << >>) ]_vars

\* The acknowledgement of the open command was routed to a Channel in Open
C32_Witness ==
    /\ chan = [state |-> "Open", number |-> 2, device |-> PowerMeterConfig]
    /\ mesg = <<[type |-> "ChannelResponse", channel |-> 2, message_id |-> 75,
                 code |-> 0]>>
    /\ chan_ret = << >>

\* C33 as stated: whenever the loop writes an open-channel message for n
\* while a Channel occupies slot n, that Channel has received the
\* acknowledgements of all five configuration commands: its state is Open.
C33_OpenAfterConfiguration ==
    [][ \A n \in 0..7 :
          (/\ LoopStep
           /\ \E i \in 1..Len(wrote') : wrote'[i] = OpenMessage(n)
           /\ channels'[n] # << >>)
            => channels'[n][1].state = "Open" ]_vars

\* The ids of the configuration messages in the order of the states: the
\* assignment, the channel id, the search timeout, the period, the frequency
ConfigIds == <<66, 81, 68, 67, 69>>
ConfigIndex(id) == CHOOSE k \in 1..5 : ConfigIds[k] = id

\* The loop's step writes m, a configuration message, as the code's state
\* machines allow: the assignment of channel n in the step that creates the
\* Channel of slot n, the k-th message in the step that moves that Channel
\* from the (k-1)-th state to the k-th
WrittenInOrder(m) ==
    LET n == m.data[1]
        k == ConfigIndex(m.id) IN
    /\ n \in 0..7
    /\ IF k = 1
       THEN /\ Receiving("OpenChannel") /\ Head(request).number = n
            /\ channels[n] = << >>
            /\ channels'[n] # << >> /\ channels'[n][1].state = "Assign"
       ELSE /\ ResponseRouted /\ mesg[1].channel = n
            /\ channels[n] # << >>
            /\ channels[n][1].state = ConfigStates[k - 1]
            /\ channels'[n] = <<[channels[n][1] EXCEPT !.state = ConfigStates[k]]>>

\* C34: a step of the loop writes one message at most; the assignment of
\* channel n is written only by the step that creates the Channel of slot
\* n, and the k-th of the later configuration messages only by the step
\* that moves that Channel from the (k-1)-th state to the k-th; and a
\* Channel that stays in its slot never moves back and keeps its number and
\* Config.  So between the creation of a Channel and its removal each
\* configuration message is written at most once, in the order of the
\* states, however many duplicated or stale acknowledgements arrive.
C34_ConfiguredOnce ==
    [][ LoopStep
          => /\ Len(wrote') <= 1
             /\ \A i \in 1..Len(wrote') :
                  wrote'[i].id \in {66, 81, 68, 67, 69} => WrittenInOrder(wrote'[i])
             /\ channels' # channels
                  => \A n \in 0..7 :
                       (channels[n] # << >> /\ channels'[n] # << >>)
                         => /\ StateIndex(channels'[n][1].state)
                                 >= StateIndex(channels[n][1].state)
                            /\ channels'[n][1].number = channels[n][1].number
                            /\ channels'[n][1].device = channels[n][1].device ]_vars

\* The acknowledgement of the assignment of channel 0 arrived a second time,
\* the Channel being in SetTimeout: nothing was written, nothing moved
C34_Witness ==
    /\ op = "Route" /\ state = "Running" /\ io = "none" /\ wrote = << >>
    /\ mesg = <<[type |-> "ChannelResponse", channel |-> 0, message_id |-> 66,
                 code |-> 0]>>
    /\ channels[0] # << >> /\ channels[0][1].state = "SetTimeout"

\* The EventChannelClosed that ends the close of channel n is routed
CloseReported(n) ==
    /\ Routing("ChannelResponse") /\ state = "Running"
    /\ ClosedBy(mesg[1]) = { n } /\ n \in closing

\* C35: once the loop has processed CloseChannel(n) for an occupied slot (the
\* close command written, the slot freed), the EventChannelClosed for n with
\* which the dongle reports that close is answered with the unassign-channel
\* message for n and never with an open-channel message for n, also when an
\* OpenChannel(n, config) is processed between the close and the event.  (A
\* write the transport rejects is left aside here.)
C35_CloseAnsweredWithUnassign ==
    [][ \A n \in 0..(NumChannels - 1) :
          CloseReported(n)
            => /\ \A i \in 1..Len(wrote') : wrote'[i] # OpenMessage(n)
               /\ io' = "ok" => wrote' = <<unassign_channel(n)>> ]_vars

\* A Quit command is waiting on the command queue
QuitPending == \E i \in 1..Len(request) : request[i].type = "Quit"

\* C36: once a Quit command is on the command queue the run loop eventually
\* ends, by processing the Quit or by a fatal error, whatever the device
\* state and whatever the dongle does, reads that only time out included.
C36_QuitEndsLoop == QuitPending ~> (pc = "done")

\* The channel byte of what the loop handles in this step: of the command it
\* takes off the queue or of the ChannelResponse it routes in state Running
ChannelByteHandled ==
    IF Receiving("OpenChannel") \/ Receiving("CloseChannel")
    THEN { Head(request).number }
    ELSE IF Routing("ChannelResponse") /\ state = "Running"
    THEN { mesg[1].channel }
    ELSE { }

\* C37: whatever channel byte an OpenChannel, a CloseChannel or an inbound
\* ChannelResponse carries, the loop indexes the 8 slots within 0..7: a byte
\* of 8 or more does not make the thread panic.
C37_SlotIndexInRange ==
    [][ \A n \in ChannelByteHandled : n >= NumChannels => result' # "Panic" ]_vars

\* The buffer holds no frame of an id process_message does not know
KnownIdsOnly ==
    /\ flip = << >>
    /\ \A i \in 1..Len(parts) :
         parts[i].kind = "frame" => ~UnknownId(parts[i].mesg)

\* C38: whatever the bytes of the buffer, malformed ones included (a sync
\* byte as the last byte, a declared length that runs past the end, a
\* checksum-valid ResponseEvent, BroadcastData or Startup frame with a payload
\* of the wrong length), ReadBuffer::next never reads outside the buffer and
\* never panics.
C38_DecoderNeverAborts == KnownIdsOnly => rb # "panic"

\* A call of ReadBuffer::next returns in this step (it does not panic)
NextReturns == rb = "iter" /\ rb' \in {"iter", "end"}

\* C39 as stated: every call of ReadBuffer::next strictly increases the
\* cursor.
C39_EveryCallAdvances == [][ NextReturns => index' > index ]_vars

\* C39, amended: decoding one buffer terminates.  A call of next that yields
\* a message moves the cursor forward by at least 4, the shortest frame, and
\* never past the end of the buffer; a call that returns None yields nothing
\* and leaves the cursor at the end of the buffer, where it may have been
\* already; a call that panics moves and yields nothing.  So at most
\* len(buffer)/4 messages are yielded, the calls come to an end (None or a
\* panic), and once None was returned a later call returns None again and
\* leaves the cursor where it is.
C39_DecodingTerminates ==
    /\ [](4 * Len(yielded) <= index /\ index <= Len(inner))
    /\ [](rb = "end"
            => /\ index = Len(inner)
               /\ ReadBufferNext(inner, index)
                    = Yield(index, [panic |-> FALSE, item |-> None]))
    /\ [][ /\ (rb = "iter" /\ rb' = "iter")
                => Len(yielded') = Len(yielded) + 1 /\ index' >= index + 4
           /\ (rb = "iter" /\ rb' = "end")
                => yielded' = yielded /\ index' >= index
           /\ (rb = "iter" /\ rb' = "panic")
                => yielded' = yielded /\ index' = index
           /\ rb = "end" => rb' = "end" ]_vars

\* The buffer of test_read_buffer, three Startup frames, decoded to its end:
\* the fourth call found the cursor at the end and returned None
C39_Witness ==
    /\ rb = "end" /\ flip = << >>
    /\ Len(parts) = 3
    /\ \A i \in 1..3 : parts[i] = FramePart(Message(MESG_STARTUP_MESG_ID, <<0>>))
    /\ yielded = <<Startup(0), Startup(0), Startup(0)>>
    /\ index = Len(inner)

===========================================================================
